---- MODULE Spec2Model ----
(***************************************************************************)
(* Slow mode (src/slow-mode/index.ts): the interception gate that reviews  *)
(* write and edit tool calls before they run, its staging store, and the   *)
(* Myers line diff used to display edits.                                  *)
(*                                                                         *)
(* Representation.  A text is the sequence of its lines: JavaScript's      *)
(* text.split("\n") and lines.join("\n") are inverse bijections between    *)
(* strings and non-empty sequences of newline-free strings, so the text    *)
(* "a\nb" is <<"a", "b">> and the empty text "" is <<"">>.                 *)
(* A JavaScript number that may be undefined/NaN is <<n>> or <<>>.         *)
(***************************************************************************)
EXTENDS Integers, Sequences, FiniteSets, TLC

VARIABLES
    hasUI,       \* ctx.hasUI: whether the session has an interactive UI
    enabled,     \* the enable flag
    editedCalls, \* Map toolCallId -> [original, edited]
    fs,          \* the file system: existing file path -> text
    calls,       \* calls[id]: the tool call with toolCallId id, as the host sees it
    pc,          \* "idle", or "viewing" while a review awaits a key
    staged,      \* the staged paths of the review in flight
    status,      \* the "slow-mode" entry of the status bar: Missing, or the text set
    shutdown,    \* "no", then how session_shutdown left the temporary root
    dOld,        \* myersDiff: the oldLines argument
    dNew,        \* myersDiff: the newLines argument
    dEdits,      \* myersDiff: the returned edit script
    dCtx,        \* buildHunks: the contextLines argument
    dHunks,      \* buildHunks: the returned hunks
    dPc,         \* "input", "diffed" after myersDiff, "hunked" after buildHunks
    rvOp,        \* review session: "WRITE" (showReview) or "EDIT" (showEditReview)
    bodyLen,     \* review session: bodyLines.length
    maxScroll,   \* review session: maxScroll
    scrollOffset,\* review session: scrollOffset
    lastGPress,  \* review session: lastGPress
    clock,       \* Date.now()
    rvPc,        \* review session: "open" until done() is called, then "closed"
    rvCached,    \* review session: cachedLines, Missing when undefined
    onPath,      \* the programs `which` finds on PATH
    deltaAvailable, \* hasDelta's cache: Missing for null, or the cached answer
    spawned,     \* the subprocesses the last bridge call ran, in order
    bridgeOut,   \* how the last bridge call ended: returned value or raised
    tmpPatch     \* what the last renderWithDelta left of its temporary directory

gateVars == <<hasUI, enabled, editedCalls, fs, calls, pc, staged, status, shutdown>>

diffVars == <<dOld, dNew, dEdits, dCtx, dHunks, dPc>>

scrollVars == <<rvOp, bodyLen, maxScroll, scrollOffset, lastGPress, clock, rvPc, rvCached>>

bridgeVars == <<onPath, deltaAvailable, spawned, bridgeOut, tmpPatch>>

vars == <<hasUI, enabled, editedCalls, fs, calls, pc, staged, status, shutdown,
          dOld, dNew, dEdits, dCtx, dHunks, dPc,
          rvOp, bodyLen, maxScroll, scrollOffset, lastGPress, clock, rvPc, rvCached,
          onPath, deltaAvailable, spawned, bridgeOut, tmpPatch>>

\* No call of the external tool bridge is under study
NoBridge ==
    /\ onPath = {}
    /\ deltaAvailable = <<>>
    /\ spawned = <<>>
    /\ bridgeOut = [op |-> "none", tool |-> "none", raised |-> FALSE, value |-> <<>>]
    /\ tmpPatch = {}

\* No review session component is under study
NoSession ==
    /\ rvOp = "WRITE"
    /\ bodyLen = 1
    /\ maxScroll = 0
    /\ scrollOffset = 0
    /\ lastGPress = 0
    /\ clock = 0
    /\ rvPc = "closed"
    /\ rvCached = <<>>

\* No diff is under study
NoDiff ==
    /\ dOld = <<>>
    /\ dNew = <<>>
    /\ dEdits = <<>>
    /\ dCtx = 0
    /\ dHunks = <<>>
    /\ dPc = "input"

-----------------------------------------------------------------------------
(* Bounds of the diff inputs *)

MaxLen == 3

Alphabet == {"a", "b", "c"}

RECURSIVE SeqsUpTo(_, _)
SeqsUpTo(S, n) ==
    IF n = 0 THEN {<<>>}
    ELSE LET shorter == SeqsUpTo(S, n - 1)
         IN shorter \cup {Append(s, e) : s \in {t \in shorter : Len(t) = n - 1}, e \in S}

LineSeqs == SeqsUpTo(Alphabet, MaxLen)

-----------------------------------------------------------------------------
(* JavaScript values that may be undefined *)

Undefined == <<>>

Num(n) == <<n>>

IsNum(a) == Len(a) = 1

\* a < b, a >= b, a > b, a === b: every comparison with undefined/NaN is false
JsLt(a, b) == IsNum(a) /\ IsNum(b) /\ a[1] < b[1]

JsGe(a, b) == IsNum(a) /\ IsNum(b) /\ a[1] >= b[1]

JsGt(a, b) == IsNum(a) /\ IsNum(b) /\ a[1] > b[1]

JsPlus(a, i) == IF IsNum(a) THEN Num(a[1] + i) ELSE Undefined

\* Storing into an Int32Array: undefined/NaN is stored as 0
ToInt32(a) == IF IsNum(a) THEN a[1] ELSE 0

\* Int32Array read v[i] (0-based): undefined outside the array
VRead(v, i) == IF i + 1 \in DOMAIN v THEN Num(v[i + 1]) ELSE Undefined

\* Int32Array write v[i] = a (0-based): ignored outside the array
VWrite(v, i, a) == IF i + 1 \in DOMAIN v THEN [v EXCEPT ![i + 1] = ToInt32(a)] ELSE v

\* lines[i] (0-based): undefined outside the array
LineAt(lines, i) == IF i + 1 \in DOMAIN lines THEN lines[i + 1] ELSE "undefined"

-----------------------------------------------------------------------------
(* myersDiff *)

Keep(line) == [type |-> "keep", line |-> line]

Insert(line) == [type |-> "insert", line |-> line]

Delete(line) == [type |-> "delete", line |-> line]

\* new Int32Array(size); v[max + 1] = 0
InitV(max) == VWrite([i \in 1..(2 * max + 1) |-> 0], max + 1, Num(0))

\* MoveDown with the comparison of the two neighbouring diagonals inverted
MoveDownInverted(v, d, k, max) ==
    k = -d \/ (k # d /\ JsGt(VRead(v, k + max - 1), VRead(v, k + max + 1)))

\* The move decision at diagonal k of round d: TRUE = down (insert), from k+1
MoveDown(v, d, k, max) ==
    k = -d \/ (k # d /\ JsLt(VRead(v, k + max - 1), VRead(v, k + max + 1)))

\* while (x < n && y < m && oldLines[x] === newLines[y]) { x++; y++ }
RECURSIVE FollowDiagonal(_, _, _, _)
FollowDiagonal(oldLines, newLines, x, y) ==
    IF /\ JsLt(x, Num(Len(oldLines)))
       /\ JsLt(y, Num(Len(newLines)))
       /\ LineAt(oldLines, x[1]) = LineAt(newLines, y[1])
    THEN FollowDiagonal(oldLines, newLines, JsPlus(x, 1), JsPlus(y, 1))
    ELSE x

\* The inner loop, for (k = -d; k <= d; k += 2), from diagonal k on
RECURSIVE ForwardK(_, _, _, _, _)
ForwardK(oldLines, newLines, v, d, k) ==
    IF k > d THEN [v |-> v, reached |-> FALSE]
    ELSE LET n == Len(oldLines)
             m == Len(newLines)
             max == n + m
             x0 == IF MoveDown(v, d, k, max)
                   THEN VRead(v, k + max + 1)
                   ELSE JsPlus(VRead(v, k + max - 1), 1)
             y0 == JsPlus(x0, -k)
             x == FollowDiagonal(oldLines, newLines, x0, y0)
             y == JsPlus(x, -k)
             v1 == VWrite(v, k + max, x)
         IN IF JsGe(x, Num(n)) /\ JsGe(y, Num(m))
            THEN [v |-> v1, reached |-> TRUE]
            ELSE ForwardK(oldLines, newLines, v1, d, k + 2)

\* ForwardD whose loop stops one round early, for (d = 0; d < max; d++)
RECURSIVE ForwardDOneRoundShort(_, _, _, _, _)
ForwardDOneRoundShort(oldLines, newLines, v, d, trace) ==
    IF d >= Len(oldLines) + Len(newLines) THEN trace
    ELSE LET saved == Append(trace, v)
             r == ForwardK(oldLines, newLines, v, d, -d)
         IN IF r.reached THEN saved
            ELSE ForwardDOneRoundShort(oldLines, newLines, r.v, d + 1, saved)

\* The outer loop, for (d = 0; d <= max; d++), from round d on: the trace
RECURSIVE ForwardD(_, _, _, _, _)
ForwardD(oldLines, newLines, v, d, trace) ==
    IF d > Len(oldLines) + Len(newLines) THEN trace
    ELSE LET saved == Append(trace, v)
             r == ForwardK(oldLines, newLines, v, d, -d)
         IN IF r.reached THEN saved
            ELSE ForwardD(oldLines, newLines, r.v, d + 1, saved)

MyersTrace(oldLines, newLines) ==
    ForwardD(oldLines, newLines, InitV(Len(oldLines) + Len(newLines)), 0, <<>>)

\* BackDiagonal pushing oldLines[x] before x is decremented
RECURSIVE BackDiagonalOffByOne(_, _, _, _, _, _)
BackDiagonalOffByOne(oldLines, x, y, prevX, prevY, edits) ==
    IF JsGt(Num(x), prevX) /\ JsGt(Num(y), prevY)
    THEN BackDiagonalOffByOne(oldLines, x - 1, y - 1, prevX, prevY,
                              Append(edits, Keep(LineAt(oldLines, x))))
    ELSE [x |-> x, y |-> y, edits |-> edits]

\* while (x > prevX && y > prevY) { x--; y--; edits.push(keep oldLines[x]) }
RECURSIVE BackDiagonal(_, _, _, _, _, _)
BackDiagonal(oldLines, x, y, prevX, prevY, edits) ==
    IF JsGt(Num(x), prevX) /\ JsGt(Num(y), prevY)
    THEN BackDiagonal(oldLines, x - 1, y - 1, prevX, prevY,
                      Append(edits, Keep(LineAt(oldLines, x - 1))))
    ELSE [x |-> x, y |-> y, edits |-> edits]

\* The backtrack loop, for (d = trace.length - 1; d >= 0; d--), from round d on;
\* edits is the script in reverse
RECURSIVE Backtrack(_, _, _, _, _, _, _)
Backtrack(oldLines, newLines, trace, d, x, y, edits) ==
    IF d < 0 THEN edits
    ELSE LET max == Len(oldLines) + Len(newLines)
             prev == trace[d + 1]
             k == x - y
             prevK == IF MoveDown(prev, d, k, max) THEN k + 1 ELSE k - 1
             prevX == VRead(prev, prevK + max)
             prevY == JsPlus(prevX, -prevK)
             b == BackDiagonal(oldLines, x, y, prevX, prevY, edits)
         IN IF d > 0
            THEN IF Num(b.x) = prevX
                 THEN Backtrack(oldLines, newLines, trace, d - 1, b.x, b.y - 1,
                                Append(b.edits, Insert(LineAt(newLines, b.y - 1))))
                 ELSE Backtrack(oldLines, newLines, trace, d - 1, b.x - 1, b.y,
                                Append(b.edits, Delete(LineAt(oldLines, b.x - 1))))
            ELSE Backtrack(oldLines, newLines, trace, d - 1, b.x, b.y, b.edits)

Reverse(s) == [i \in 1..Len(s) |-> s[Len(s) + 1 - i]]

myersDiff(oldLines, newLines) ==
    LET trace == MyersTrace(oldLines, newLines)
    IN Reverse(Backtrack(oldLines, newLines, trace, Len(trace) - 1,
                         Len(oldLines), Len(newLines), <<>>))

-----------------------------------------------------------------------------
(* buildHunks.  Script indices are 0-based as in the code. *)

\* Bounds of the hunk inputs: the longest edit script and the largest
\* contextLines
MaxEdits == 8

MaxCtx == 3

Contexts == 0..MaxCtx

Max(a, b) == IF a >= b THEN a ELSE b

Min(a, b) == IF a <= b THEN a ELSE b

\* edits[i]
EditAt(edits, i) == edits[i + 1]

\* ChangeIndices that takes every operation other than an insert for a change
ChangeIndicesNotInsert(edits) ==
    SelectSeq([i \in 1..Len(edits) |-> i - 1],
              LAMBDA i : EditAt(edits, i).type # "insert")

\* The indices of all insert and delete operations, in increasing order
ChangeIndices(edits) ==
    SelectSeq([i \in 1..Len(edits) |-> i - 1],
              LAMBDA i : EditAt(edits, i).type # "keep")

\* CloseEnough that merges only changes within contextLines of each other
CloseEnoughHalf(index, groupEnd, contextLines) ==
    index - groupEnd <= contextLines

\* if (changeIndices[i] - groupEnd <= 2 * contextLines)
CloseEnough(index, groupEnd, contextLines) ==
    index - groupEnd <= 2 * contextLines

\* The grouping loop, for (i = 1; i < changeIndices.length; i++), from the
\* i-th change on (i is 1-based here), and the push after it
RECURSIVE GroupFrom(_, _, _, _, _, _)
GroupFrom(changeIndices, contextLines, i, groupStart, groupEnd, groups) ==
    IF i > Len(changeIndices)
    THEN Append(groups, [start |-> groupStart, end |-> groupEnd])
    ELSE IF CloseEnough(changeIndices[i], groupEnd, contextLines)
         THEN GroupFrom(changeIndices, contextLines, i + 1,
                        groupStart, changeIndices[i], groups)
    ELSE GroupFrom(changeIndices, contextLines, i + 1,
                   changeIndices[i], changeIndices[i],
                   Append(groups, [start |-> groupStart, end |-> groupEnd]))

\* The groups of a script with at least one change
Groups(edits, contextLines) ==
    LET changeIndices == ChangeIndices(edits)
    IN GroupFrom(changeIndices, contextLines, 2,
                 changeIndices[1], changeIndices[1], <<>>)

\* Math.max(0, group.start - contextLines)
HunkStart(group, contextLines) == Max(0, group.start - contextLines)

\* HunkEnd that adds no context after the group
HunkEndNoContext(edits, group, contextLines) == Min(Len(edits) - 1, group.end)

\* Math.min(edits.length - 1, group.end + contextLines)
HunkEnd(edits, group, contextLines) == Min(Len(edits) - 1, group.end + contextLines)

\* LineNumber that counts lines from 0
LineNumberZeroBased(edits, hunkStart, types) ==
    Cardinality({i \in 0..(hunkStart - 1) : EditAt(edits, i).type \in types})

\* 1 + the number of edits of the given types before hunkStart
LineNumber(edits, hunkStart, types) ==
    1 + Cardinality({i \in 0..(hunkStart - 1) : EditAt(edits, i).type \in types})

\* The number of edits of the given types in hunkStart..hunkEnd
LineCount(edits, hunkStart, hunkEnd, types) ==
    Cardinality({i \in hunkStart..hunkEnd : EditAt(edits, i).type \in types})

\* ` ${edit.line}`, `-${edit.line}`, `+${edit.line}`
HunkLine(edit) ==
    IF edit.type = "keep" THEN " " \o edit.line
    ELSE IF edit.type = "delete" THEN "-" \o edit.line
    ELSE "+" \o edit.line

\* The hunk of one group
HunkOf(edits, group, contextLines) ==
    LET hunkStart == HunkStart(group, contextLines)
        hunkEnd == HunkEnd(edits, group, contextLines)
    IN [oldStart |-> LineNumber(edits, hunkStart, {"keep", "delete"}),
        oldCount |-> LineCount(edits, hunkStart, hunkEnd, {"keep", "delete"}),
        newStart |-> LineNumber(edits, hunkStart, {"keep", "insert"}),
        newCount |-> LineCount(edits, hunkStart, hunkEnd, {"keep", "insert"}),
        lines |-> [j \in 1..(hunkEnd - hunkStart + 1) |->
                        HunkLine(EditAt(edits, hunkStart + j - 1))]]

buildHunks(edits, contextLines) ==
    IF Len(edits) = 0 THEN <<>>
    ELSE IF ChangeIndices(edits) = <<>> THEN <<>>
    ELSE LET groups == Groups(edits, contextLines)
         IN [g \in 1..Len(groups) |-> HunkOf(edits, groups[g], contextLines)]

\* `@@ -${oldStart},${oldCount} +${newStart},${newCount} @@`, as its four numbers
HunkHeader(hunk) == <<hunk.oldStart, hunk.oldCount, hunk.newStart, hunk.newCount>>

-----------------------------------------------------------------------------
(* Bounds of the gate model *)

MaxCalls == 1

MaxTs == 1

\* Values Date.now() may return when an edit is staged
Times == 1..MaxTs

-----------------------------------------------------------------------------
(* Texts.  A value that may be missing (undefined/null, or a file that     *)
(* does not exist) is <<v>> or <<>>.                                       *)

TextA == <<"a">>

TextB == <<"b">>

TextAB == <<"a", "b">>

\* Texts the model proposes as oldText and newText of an edit
Texts == {TextA, TextB}

\* Texts the model proposes as the content of a write
WriteTexts == {TextA}

\* Texts an external editor may leave in a staged file
EditorTexts == {TextB, TextAB}

Missing == <<>>

Some(v) == <<v>>

-----------------------------------------------------------------------------
(* node:path (posix) on paths held as segment lists.  A segment is a file  *)
(* name split as basename/extname split it: stem and extension; ts and     *)
(* kind are set only in the names reviewEdit builds,                       *)
(* `${nameWithoutExt}-${ts}.${kind}${ext}`.                                *)

Seg(stem, ext) == [stem |-> stem, ext |-> ext, ts |-> 0, kind |-> ""]

DotDot == Seg("..", "")

AbsPath(segs) == [abs |-> TRUE, segs |-> segs]

RelPath(segs) == [abs |-> FALSE, segs |-> segs]

\* path.normalize: ".." removes the segment before it; at the root of an
\* absolute path it is dropped, at the start of a relative path it stays
RECURSIVE NormalizeFrom(_, _, _, _)
NormalizeFrom(abs, segs, i, out) ==
    IF i > Len(segs) THEN out
    ELSE IF segs[i] # DotDot
         THEN NormalizeFrom(abs, segs, i + 1, Append(out, segs[i]))
    ELSE IF Len(out) > 0 /\ out[Len(out)] # DotDot
         THEN NormalizeFrom(abs, segs, i + 1, SubSeq(out, 1, Len(out) - 1))
    ELSE IF abs
         THEN NormalizeFrom(abs, segs, i + 1, out)
    ELSE NormalizeFrom(abs, segs, i + 1, Append(out, DotDot))

normalize(p) == [abs |-> p.abs, segs |-> NormalizeFrom(p.abs, p.segs, 1, <<>>)]

\* path.resolve(from, to), from absolute
resolve(from, to) ==
    IF to.abs THEN normalize(to) ELSE normalize(AbsPath(from.segs \o to.segs))

RECURSIVE CommonLen(_, _, _)
CommonLen(a, b, c) ==
    IF c < Len(a) /\ c < Len(b) /\ a[c + 1] = b[c + 1]
    THEN CommonLen(a, b, c + 1)
    ELSE c

\* path.relative(from, to), both absolute and normalized
relative(from, to) ==
    LET c == CommonLen(from.segs, to.segs, 0)
    IN RelPath([i \in 1..(Len(from.segs) - c) |-> DotDot]
               \o SubSeq(to.segs, c + 1, Len(to.segs)))

\* path.join(a, b)
join(a, b) == normalize([abs |-> a.abs, segs |-> a.segs \o b.segs])

\* path.basename(p), "" for the empty path
basename(p) == IF Len(p.segs) = 0 THEN Seg("", "") ELSE p.segs[Len(p.segs)]

\* p lies under the directory dir
Under(dir, p) ==
    /\ p.abs = dir.abs
    /\ Len(p.segs) > Len(dir.segs)
    /\ SubSeq(p.segs, 1, Len(dir.segs)) = dir.segs

-----------------------------------------------------------------------------
(* The session: working directory, temporary root, files that exist *)

\* ctx.cwd
Cwd == AbsPath(<<Seg("home", ""), Seg("proj", "")>>)

\* mkdtempSync(join(tmpdir(), "pi-slow-mode-"))
tmpDir == AbsPath(<<Seg("tmp", ""), Seg("pi-slow-mode-XXXXXX", "")>>)

\* Target paths the host proposes: "a.txt", "/home/proj/a.txt", "/etc/hosts",
\* "../x.txt" and ""
PathRel == RelPath(<<Seg("a", ".txt")>>)

PathInside == AbsPath(<<Seg("home", ""), Seg("proj", ""), Seg("a", ".txt")>>)

PathOutside == AbsPath(<<Seg("etc", ""), Seg("hosts", "")>>)

PathUp == RelPath(<<DotDot, Seg("x", ".txt")>>)

PathEmpty == RelPath(<<>>)

TargetPaths == {PathRel, PathInside, PathOutside, PathUp, PathEmpty}

\* resolve(ctx.cwd, filePath) of a proposed path: the file the tool would change
Target(filePath) == resolve(Cwd, filePath)

\* The real files that exist when the session starts
RealFiles == (PathInside :> TextA) @@ (PathOutside :> TextA)

\* A read that yields an empty text for a file that is not there
ReadFileEmptyWhenMissing(files, path) ==
    IF path \in DOMAIN files THEN Some(files[path]) ELSE Some(<<>>)

\* readFileSync(path): the text, or Missing when it throws
ReadFile(files, path) == IF path \in DOMAIN files THEN Some(files[path]) ELSE Missing

\* writeFileSync(path, text)
WriteFile(files, path, text) ==
    [q \in DOMAIN files \cup {path} |-> IF q = path THEN text ELSE files[q]]

\* unlinkSync(path) inside try/catch: a missing file is ignored
cleanup(files, path) == [q \in DOMAIN files \ {path} |-> files[q]]

RECURSIVE CleanupAll(_, _)
CleanupAll(files, paths) ==
    IF paths = <<>> THEN files
    ELSE CleanupAll(cleanup(files, Head(paths)), Tail(paths))

-----------------------------------------------------------------------------
(* Tool calls *)

Tools == {"write", "edit", "read"}

ToolInput(path, content, oldText, newText) ==
    [path |-> path, content |-> content, oldText |-> oldText, newText |-> newText]

\* The inputs the host sends: every field present or missing
WriteInputs ==
    {ToolInput(p, c, Missing, Missing) :
        p \in {Missing} \cup {Some(q) : q \in TargetPaths},
        c \in {Missing} \cup {Some(t) : t \in WriteTexts}}

EditInputs ==
    {ToolInput(p, Missing, o, n) :
        p \in {Missing} \cup {Some(q) : q \in {PathRel, PathOutside, PathEmpty}},
        o \in {Missing, Some(TextA)},
        n \in {Missing} \cup {Some(t) : t \in Texts}}

ReadInputs == {ToolInput(Some(PathRel), Missing, Missing, Missing)}

InputsOf(tool) ==
    IF tool = "write" THEN WriteInputs
    ELSE IF tool = "edit" THEN EditInputs
    ELSE ReadInputs

\* NoPath that takes the empty string for a path
NoPathOnlyMissing(input) == input.path = Missing

\* !filePath
NoPath(input) == input.path = Missing \/ input.path = Some(PathEmpty)

\* if (!filePath || content == null) return
WriteMalformed(input) == NoPath(input) \/ input.content = Missing

\* if (!filePath || oldText == null || newText == null) return
EditMalformed(input) ==
    NoPath(input) \/ input.oldText = Missing \/ input.newText = Missing

Malformed(tool, input) ==
    IF tool = "write" THEN WriteMalformed(input)
    ELSE IF tool = "edit" THEN EditMalformed(input)
    ELSE FALSE

\* PassThrough that forgets the enable flag
PassThroughFlagUnchecked(en, ui) == ~ui

\* if (!enabled || !ctx.hasUI) return
PassThrough(en, ui) == ~en \/ ~ui

\* relative(ctx.cwd, resolve(ctx.cwd, filePath))
resolvePath(cwd, filePath) == relative(cwd, resolve(cwd, filePath))

\* reviewWrite: stagePath = join(tmpDir, relPath)
WriteStagePath(filePath) == join(tmpDir, resolvePath(Cwd, filePath))

\* EditStagePath that gives the old and the new text one file
EditStagePathOneFile(filePath, ts, kind) ==
    LET base == basename(resolvePath(Cwd, filePath))
    IN join(tmpDir, RelPath(<<[stem |-> base.stem, ext |-> base.ext,
                               ts |-> ts, kind |-> "new"]>>))

\* reviewEdit: join(tmpDir, `${nameWithoutExt}-${ts}.${kind}${ext}`)
EditStagePath(filePath, ts, kind) ==
    LET base == basename(resolvePath(Cwd, filePath))
    IN join(tmpDir, RelPath(<<[stem |-> base.stem, ext |-> base.ext,
                               ts |-> ts, kind |-> kind]>>))

\* The proposed content a review is about: content (write) or newText (edit)
Proposed(tool, input) ==
    IF tool = "write" THEN input.content[1] ELSE input.newText[1]

\* input.content = text / input.newText = text
WithContent(tool, input, text) ==
    IF tool = "write" THEN [input EXCEPT !.content = Some(text)]
    ELSE [input EXCEPT !.newText = Some(text)]

\* A read-back made whatever the decision
ReadBackAtAnyDecision(approved, files, path) == ReadFile(files, path)

\* if (approved) { try { readFileSync(path) } catch {} }: what was read, Missing
\* when nothing was read or the read failed
ReadBackAt(approved, files, path) ==
    IF approved THEN ReadFile(files, path) ELSE Missing

\* The content was changed: the read succeeded and editedContent !== content
Substituted(readBack, original) == readBack # Missing /\ readBack[1] # original

\* Outbound that keeps the proposal whatever was read back
OutboundOriginal(readBack, original) == original

\* The content the tool runs with after approval
Outbound(readBack, original) ==
    IF Substituted(readBack, original) THEN readBack[1] ELSE original

\* DecisionOf whose write review, too, takes Ctrl+E for an edit request
DecisionOfEditAnywhere(tool, key) ==
    IF key = "enter" THEN "approve"
    ELSE IF key = "escape" THEN "reject"
    ELSE IF key = "ctrl+e" THEN "edit"
    ELSE "none"

\* What handleInput passes to done() for a key: showReview (write) ends on
\* Enter and Esc with true and false, showEditReview (edit) on Enter, Esc and
\* Ctrl+E with "approve", "reject" and "edit"; "none" for a key that does not
\* end the session
DecisionOf(tool, key) ==
    IF key = "enter" THEN "approve"
    ELSE IF key = "escape" THEN "reject"
    ELSE IF key = "ctrl+e" /\ tool = "edit" THEN "edit"
    ELSE "none"

\* ReviewReturn that lets the call proceed whatever was decided
ReviewReturnAlwaysProceed(tool, approved) == [ret |-> "undefined", reason |-> ""]

\* if (!approved) return { block: true, reason }; otherwise undefined
ReviewReturn(tool, approved) ==
    IF approved THEN [ret |-> "undefined", reason |-> ""]
    ELSE IF tool = "write"
         THEN [ret |-> "block", reason |-> "User rejected the write in slow mode review."]
    ELSE [ret |-> "block", reason |-> "User rejected the edit in slow mode review."]

\* The call as the host sees it when the tool_call event is emitted
NewCall(tool, input) ==
    [tool |-> tool,
     proposal |-> input,        \* event.input as first proposed
     input |-> input,           \* event.input, which the handler may mutate
     wasEnabled |-> enabled,    \* the flag when the tool_call event arrived
     ret |-> "pending",         \* the handler's result: "undefined", "block", "threw"
     reason |-> "",
     abort |-> "none",          \* what threw: "staging", "editor", "read"
     decision |-> "none",       \* how the latest review session ended
     artifacts |-> <<>>,        \* every path staged for the call
     started |-> FALSE,         \* a review session was shown
     readBack |-> Missing,      \* the new-content artifact as read at approval
     fault |-> "none",          \* the staging write that failed: "first", "second"
     body |-> <<>>,             \* the lines the review session displays
     cachedLines |-> Missing,   \* showReview's cache: the body it was rendered from
     events |-> <<>>,           \* what the handler emitted on pi.events, in order
     editedOutside |-> FALSE,   \* the new-content artifact differed from the
                                \* proposal when the session ended
     resulted |-> FALSE,        \* the tool_result handler has run
     notes |-> <<>>]            \* line deltas of the notes appended to the result

-----------------------------------------------------------------------------
(* What a review session displays *)

\* The file name a path segment stands for
SegString(seg) ==
    IF seg.kind = "" THEN seg.stem \o seg.ext
    ELSE seg.stem \o "-" \o ToString(seg.ts) \o "." \o seg.kind \o seg.ext

RECURSIVE SegsString(_)
SegsString(segs) ==
    IF segs = <<>> THEN ""
    ELSE IF Len(segs) = 1 THEN SegString(segs[1])
    ELSE SegString(segs[1]) \o "/" \o SegsString(Tail(segs))

\* The path as the string node:path returns
PathString(p) == (IF p.abs THEN "/" ELSE "") \o SegsString(p.segs)

\* `@@ -${oldStart},${oldCount} +${newStart},${newCount} @@`
HunkHeaderLine(hunk) ==
    "@@ -" \o ToString(hunk.oldStart) \o "," \o ToString(hunk.oldCount)
        \o " +" \o ToString(hunk.newStart) \o "," \o ToString(hunk.newCount) \o " @@"

RECURSIVE HunksText(_)
HunksText(hunks) ==
    IF hunks = <<>> THEN <<>>
    ELSE <<HunkHeaderLine(Head(hunks))>> \o Head(hunks).lines \o HunksText(Tail(hunks))

\* generateUnifiedDiff's default contextLines
DefaultContextLines == 3

\* generateUnifiedDiff(filePath, oldText, newText, contextLines): the lines of
\* the returned string
generateUnifiedDiff(filePath, oldText, newText, contextLines) ==
    <<"--- a/" \o PathString(filePath), "+++ b/" \o PathString(filePath)>>
        \o HunksText(buildHunks(myersDiff(oldText, newText), contextLines))

\* renderWithDelta(diff) where delta is not installed: hasDelta() is false and
\* the diff is returned as it is
renderWithDelta(diff) == diff

\* The body reviewEdit hands to showEditReview for the staged texts
EditBody(filePath, currentOldText, currentNewText) ==
    renderWithDelta(generateUnifiedDiff(resolvePath(Cwd, filePath),
                        currentOldText, currentNewText, DefaultContextLines))

\* ReloadedBody of a session that never reloads
ReloadedBodyNever(ok, body, read) == body

\* openExternal of showReview with allowEdit: currentBody after the viewer
\* returned (ok) or threw, read being the staged file as readFileSync finds it
ReloadedBody(ok, body, read) == IF ok /\ read # Missing THEN read[1] ELSE body

\* Written that takes every write for done
WrittenDespiteFault(fault, n) == n

\* The writeFileSync calls that succeed out of n when fault names the failing one
Written(fault, n) ==
    IF fault = "first" THEN 0
    ELSE IF fault = "second" /\ n = 2 THEN 1
    ELSE n

\* The failing writeFileSync among the n the handler makes, "none" if it makes
\* no such call
FaultOf(fault, n) == IF fault = "second" /\ n < 2 THEN "none" ELSE fault

\* The text setStatus shows while slow mode is enabled
StatusText == "slow"

\* StatusOf that never clears the indicator
StatusOfNeverCleared(en) == Some(StatusText)

\* ctx.ui.setStatus("slow-mode", ...) after the flag was flipped to en
StatusOf(en) == IF en THEN Some(StatusText) ELSE Missing

\* RemoveTree that removes nothing
RemoveTreeKeepsFiles(files, dir) == files

\* rmSync(tmpDir, { recursive: true }) that succeeded
RemoveTree(files, dir) ==
    [q \in {p \in DOMAIN files : ~Under(dir, p)} |-> files[q]]

-----------------------------------------------------------------------------
(* The gate's handlers.  A handler runs to its next suspension point (the  *)
(* await of the review UI) in one step; external viewers and editors run   *)
(* synchronously inside the step that starts them.                         *)
(* The file system holds files only: directories made by ensureDir are not *)
(* tracked, unlinkSync fails only on a missing file, and the host's own    *)
(* run of an approved tool is not part of the gate.                        *)

\* What the user did to the files while an external viewer/editor was open:
\* nothing, or one of the files it was given rewritten or removed
Effects(paths) ==
    {[path |-> Missing, text |-> Missing]}
        \cup {[path |-> Some(paths[i]), text |-> t] :
                i \in DOMAIN paths, t \in {Missing} \cup {Some(x) : x \in EditorTexts}}

ApplyEffect(files, effect) ==
    IF effect.path = Missing THEN files
    ELSE IF effect.text = Missing THEN cleanup(files, effect.path[1])
    ELSE WriteFile(files, effect.path[1], effect.text[1])

\* The host keeps of an earlier call only what its tool_result event needs;
\* the bookkeeping of the review is dropped when the next call arrives
Archive(call) ==
    [NewCall(call.tool, ToolInput(Missing, Missing, Missing, Missing))
        EXCEPT !.wasEnabled = FALSE, !.ret = call.ret,
               !.resulted = call.resulted, !.notes = call.notes]

ArchiveAll(cs) == [i \in DOMAIN cs |-> Archive(cs[i])]

Put(map, key, value) ==
    [k \in DOMAIN map \cup {key} |-> IF k = key THEN value ELSE map[k]]

Remove(map, key) == [k \in DOMAIN map \ {key} |-> map[k]]

Init ==
    /\ hasUI \in BOOLEAN
    /\ enabled = FALSE
    /\ editedCalls = <<>>
    /\ fs = RealFiles
    /\ calls = <<>>
    /\ pc = "idle"
    /\ staged = <<>>
    /\ status = Missing
    /\ shutdown = "no"
    /\ dOld = <<>>
    /\ dNew = <<>>
    /\ dEdits = <<>>
    /\ dCtx = 0
    /\ dHunks = <<>>
    /\ dPc = "input"
    /\ NoSession
    /\ NoBridge

\* A toggle that also dismisses the review in flight
ToggleCancelsReview ==
    /\ shutdown = "no"
    /\ IF hasUI
       THEN /\ enabled' = ~enabled
            /\ status' = StatusOf(enabled')
       ELSE UNCHANGED <<enabled, status>>
    /\ pc' = "idle"
    /\ staged' = <<>>
    /\ UNCHANGED <<hasUI, editedCalls, fs, calls, shutdown>>
    /\ UNCHANGED diffVars
    /\ UNCHANGED scrollVars
    /\ UNCHANGED bridgeVars

\* The /slow-mode command
Toggle ==
    /\ shutdown = "no"
    /\ IF hasUI
       THEN /\ enabled' = ~enabled
            /\ status' = StatusOf(enabled')
       ELSE UNCHANGED <<enabled, status>>
    /\ UNCHANGED <<hasUI, editedCalls, fs, calls, pc, staged, shutdown>>
    /\ UNCHANGED diffVars
    /\ UNCHANGED scrollVars
    /\ UNCHANGED bridgeVars

\* tool_call: the handler up to its return or to the await of the review UI.
\* fault names the writeFileSync that fails, if any; ts is what Date.now()
\* returns.  A handler that calls neither takes the least ts and no fault.
ToolCall(tool, input, ts, fault) ==
    /\ pc = "idle"
    /\ shutdown = "no"
    /\ Len(calls) < MaxCalls
    /\ LET stages == /\ ~PassThrough(enabled, hasUI)
                     /\ tool \in {"write", "edit"}
                     /\ ~Malformed(tool, input)
       IN /\ ~stages => fault = "none"
          /\ (~stages \/ tool = "write") => (fault # "second" /\ \A t \in Times : ts <= t)
    /\ LET call == NewCall(tool, input)
           filePath == input.path[1]
           paths == IF tool = "write"
                    THEN <<WriteStagePath(filePath)>>
                    ELSE <<EditStagePath(filePath, ts, "old"),
                           EditStagePath(filePath, ts, "new")>>
           texts == IF tool = "write"
                    THEN <<input.content[1]>>
                    ELSE <<input.oldText[1], input.newText[1]>>
           written == Written(fault, Len(paths))
       IN IF \/ PassThrough(enabled, hasUI)
             \/ tool \notin {"write", "edit"}
             \/ Malformed(tool, input)
          THEN /\ calls' = Append(ArchiveAll(calls), [call EXCEPT !.ret = "undefined"])
               /\ UNCHANGED <<fs, pc, staged>>
          ELSE /\ fs' = IF written = 0 THEN fs
                        ELSE IF written = 1 THEN WriteFile(fs, paths[1], texts[1])
                        ELSE WriteFile(WriteFile(fs, paths[1], texts[1]), paths[2], texts[2])
               /\ IF written < Len(paths)
                  THEN /\ calls' = Append(ArchiveAll(calls),
                              [call EXCEPT !.ret = "threw", !.abort = "staging",
                                           !.fault = FaultOf(fault, Len(paths)),
                                           !.artifacts = SubSeq(paths, 1, written)])
                       /\ UNCHANGED <<pc, staged>>
                  ELSE /\ calls' = Append(ArchiveAll(calls),
                              [call EXCEPT
                                  !.artifacts = paths, !.started = TRUE,
                                  !.events = <<"slow-mode:waiting">>,
                                  !.fault = FaultOf(fault, Len(paths)),
                                  !.body = IF tool = "write" THEN texts[1]
                                           ELSE EditBody(filePath,
                                                    ReadFile(fs', paths[1])[1],
                                                    ReadFile(fs', paths[2])[1])])
                       /\ pc' = "viewing"
                       /\ staged' = paths
    /\ UNCHANGED <<hasUI, enabled, editedCalls, status, shutdown>>
    /\ UNCHANGED diffVars
    /\ UNCHANGED scrollVars
    /\ UNCHANGED bridgeVars

\* The review session resolves (done(true)/done("approve") or
\* done(false)/done("reject")) and the handler runs to its return; the
\* session's body and render cache go with its closure
Resolve(approved) ==
    /\ LET id == Len(calls)
           call == calls[id]
           original == Proposed(call.tool, call.proposal)
           readBack == ReadBackAt(approved, fs, staged[Len(staged)])
           onDisk == ReadFile(fs, staged[Len(staged)])
           result == ReviewReturn(call.tool, approved)
       IN /\ calls' = [calls EXCEPT ![id] =
                        [@ EXCEPT !.decision = DecisionOf(call.tool,
                                            IF approved THEN "enter" ELSE "escape"),
                                  !.readBack = readBack,
                                  !.input = WithContent(call.tool, @,
                                                        Outbound(readBack, original)),
                                  !.events = Append(@, "slow-mode:resolved"),
                                  !.editedOutside = Substituted(onDisk, original),
                                  !.ret = result.ret,
                                  !.reason = result.reason,
                                  !.body = <<>>,
                                  !.cachedLines = Missing]]
          /\ editedCalls' =
                IF Substituted(readBack, original)
                THEN Put(editedCalls, id, [original |-> original, edited |-> readBack[1]])
                ELSE editedCalls
          /\ fs' = CleanupAll(fs, staged)
    /\ pc' = "idle"
    /\ staged' = <<>>
    /\ UNCHANGED <<hasUI, enabled, status, shutdown>>
    /\ UNCHANGED diffVars
    /\ UNCHANGED scrollVars
    /\ UNCHANGED bridgeVars

\* Enter
KeyEnter ==
    /\ pc = "viewing"
    /\ shutdown = "no"
    /\ Resolve(TRUE)

\* Esc
KeyEscape ==
    /\ pc = "viewing"
    /\ shutdown = "no"
    /\ Resolve(FALSE)

\* KeyCtrlO that ends the session as Esc does
KeyCtrlOEndsSession(ok) ==
    /\ pc = "viewing"
    /\ shutdown = "no"
    /\ Resolve(FALSE)

\* Ctrl+O: openExternal (write review: the body is reloaded from the staged
\* file) or openExternalDiff inside try/catch (edit review: bodyLines is a
\* constant), then refresh(); ok is whether the subprocess ran without an
\* exception
KeyCtrlO(ok) ==
    /\ pc = "viewing"
    /\ shutdown = "no"
    /\ \E effect \in Effects(staged) : fs' = ApplyEffect(fs, effect)
    /\ LET id == Len(calls)
           call == calls[id]
       IN calls' = [calls EXCEPT ![id] =
                     [@ EXCEPT !.body = IF call.tool = "write"
                                        THEN ReloadedBody(ok, call.body,
                                                          ReadFile(fs', staged[1]))
                                        ELSE call.body,
                               !.cachedLines = Missing]]
    /\ UNCHANGED <<hasUI, enabled, editedCalls, pc, staged, status, shutdown>>
    /\ UNCHANGED diffVars
    /\ UNCHANGED scrollVars
    /\ UNCHANGED bridgeVars

\* Ctrl+E in an edit review: done("edit"), then openExternalFile(newPath) and
\* the next round of the review loop reads both staged files
KeyCtrlE(ok) ==
    /\ pc = "viewing"
    /\ shutdown = "no"
    /\ DecisionOf(calls[Len(calls)].tool, "ctrl+e") = "edit"
    /\ \E effect \in Effects(<<staged[Len(staged)]>>) : fs' = ApplyEffect(fs, effect)
    /\ LET id == Len(calls)
           abort == IF ~ok THEN "editor"
                    ELSE IF ReadFile(fs', staged[1]) = Missing
                            \/ ReadFile(fs', staged[Len(staged)]) = Missing THEN "read"
                    ELSE "none"
       IN IF abort = "none"
          THEN /\ calls' = [calls EXCEPT ![id] =
                             [@ EXCEPT !.decision = "edit",
                                       !.body = EditBody(calls[id].proposal.path[1],
                                                    ReadFile(fs', staged[1])[1],
                                                    ReadFile(fs', staged[2])[1]),
                                       !.cachedLines = Missing]]
               /\ UNCHANGED <<pc, staged>>
          ELSE /\ calls' = [calls EXCEPT ![id] =
                             [@ EXCEPT !.decision = "edit", !.ret = "threw",
                                       !.abort = abort,
                                       !.body = <<>>,
                                       !.cachedLines = Missing]]
               /\ pc' = "idle"
               /\ staged' = <<>>
    /\ UNCHANGED <<hasUI, enabled, editedCalls, status, shutdown>>
    /\ UNCHANGED diffVars
    /\ UNCHANGED scrollVars
    /\ UNCHANGED bridgeVars

\* lineDiff with the two line counts exchanged
lineDiffReversed(edited) == Len(edited.original) - Len(edited.edited)

\* lineDiff = editedLines - originalLines, the numbers of lines of
\* edited.edited and edited.original
lineDiff(edited) == Len(edited.edited) - Len(edited.original)

\* tool_result, after the tool of call id has run
ToolResult(id) ==
    /\ shutdown = "no"
    /\ id \in DOMAIN calls
    /\ calls[id].ret = "undefined"
    /\ ~calls[id].resulted
    /\ IF PassThrough(enabled, hasUI) \/ id \notin DOMAIN editedCalls
       THEN /\ calls' = [calls EXCEPT ![id] = [@ EXCEPT !.resulted = TRUE]]
            /\ UNCHANGED editedCalls
       ELSE LET edited == editedCalls[id]
            IN /\ editedCalls' = Remove(editedCalls, id)
               /\ calls' = [calls EXCEPT ![id] =
                             [@ EXCEPT !.resulted = TRUE,
                                       !.notes = Append(@, lineDiff(edited))]]
    /\ UNCHANGED <<hasUI, enabled, fs, pc, staged, status, shutdown>>
    /\ UNCHANGED diffVars
    /\ UNCHANGED scrollVars
    /\ UNCHANGED bridgeVars

\* render(width) of showReview with no cached lines: the lines are built from
\* the body and cached (the cache of showEditReview is not tracked)
Render ==
    /\ pc = "viewing"
    /\ calls[Len(calls)].tool = "write"
    /\ shutdown = "no"
    /\ calls[Len(calls)].cachedLines = Missing
    /\ calls' = [calls EXCEPT ![Len(calls)] = [@ EXCEPT !.cachedLines = Some(calls[Len(calls)].body)]]
    /\ UNCHANGED <<hasUI, enabled, editedCalls, fs, pc, staged, status, shutdown>>
    /\ UNCHANGED diffVars
    /\ UNCHANGED scrollVars
    /\ UNCHANGED bridgeVars

\* session_shutdown: rmSync(tmpDir, { recursive: true }) inside try/catch; ok
\* is whether rmSync removed the tree or threw before removing a staged file.
\* Nothing of the session runs after the event.
Shutdown(ok) ==
    /\ shutdown = "no"
    /\ fs' = IF ok THEN RemoveTree(fs, tmpDir) ELSE fs
    /\ shutdown' = IF ok THEN "removed" ELSE "failed"
    /\ UNCHANGED <<hasUI, enabled, editedCalls, calls, pc, staged, status>>
    /\ UNCHANGED diffVars
    /\ UNCHANGED scrollVars
    /\ UNCHANGED bridgeVars

Next ==
    \/ Toggle
    \/ \E tool \in Tools, ts \in Times, fault \in {"none", "first", "second"} :
            \E input \in InputsOf(tool) : ToolCall(tool, input, ts, fault)
    \/ KeyEnter
    \/ KeyEscape
    \/ \E ok \in BOOLEAN : KeyCtrlO(ok)
    \/ \E ok \in BOOLEAN : KeyCtrlE(ok)
    \/ \E id \in 1..MaxCalls : ToolResult(id)
    \/ Render
    \/ \E ok \in BOOLEAN : Shutdown(ok)

Spec == Init /\ [][Next]_vars

-----------------------------------------------------------------------------
(* The diff engine applied to every bounded pair of line sequences *)

\* The pair old = [a, b, c], new = [a, x, c], whose middle line is replaced by
\* a line that occurs nowhere else
ScenarioOld == <<"a", "b", "c">>

ScenarioNew == <<"a", "x", "c">>

\* The pairs of line sequences that are diffed
DiffInputs == (LineSeqs \X LineSeqs) \cup {<<ScenarioOld, ScenarioNew>>}

DiffInit ==
    /\ hasUI = TRUE
    /\ enabled = FALSE
    /\ editedCalls = <<>>
    /\ fs = RealFiles
    /\ calls = <<>>
    /\ pc = "idle"
    /\ staged = <<>>
    /\ status = StatusOf(FALSE)
    /\ shutdown = "no"
    /\ \E pair \in DiffInputs : dOld = pair[1] /\ dNew = pair[2]
    /\ dEdits = <<>>
    /\ dCtx = 0
    /\ dHunks = <<>>
    /\ dPc = "input"
    /\ NoSession
    /\ NoBridge

DiffRun ==
    /\ dPc = "input"
    /\ dEdits' = myersDiff(dOld, dNew)
    /\ dPc' = "diffed"
    /\ UNCHANGED <<dOld, dNew, dCtx, dHunks>>
    /\ UNCHANGED gateVars
    /\ UNCHANGED scrollVars
    /\ UNCHANGED bridgeVars

\* generateUnifiedDiff: const hunks = buildHunks(edits, contextLines)
HunkRun(contextLines) ==
    /\ dPc = "diffed"
    /\ dCtx' = contextLines
    /\ dHunks' = buildHunks(dEdits, contextLines)
    /\ dPc' = "hunked"
    /\ UNCHANGED <<dOld, dNew, dEdits>>
    /\ UNCHANGED gateVars
    /\ UNCHANGED scrollVars
    /\ UNCHANGED bridgeVars

DiffNext ==
    \/ DiffRun
    \/ \E contextLines \in Contexts : HunkRun(contextLines)

SpecDiff == DiffInit /\ [][DiffNext]_vars

-----------------------------------------------------------------------------
(* buildHunks applied to every bounded edit script.  A script is given by   *)
(* the types of its operations; the old and new sequences are the ones it   *)
(* replays to.                                                              *)

EditTypes == {"keep", "insert", "delete"}

\* Kept lines are "a", deleted lines "b", inserted lines "c"
TypedEdit(type) ==
    IF type = "keep" THEN Keep("a")
    ELSE IF type = "delete" THEN Delete("b")
    ELSE Insert("c")

Scripts == {[i \in 1..Len(types) |-> TypedEdit(types[i])] :
                types \in SeqsUpTo(EditTypes, MaxEdits)}

\* The lines of the operations of the given types, in order
EditLines(edits, types) ==
    LET sel == SelectSeq(edits, LAMBDA e : e.type \in types)
    IN [i \in 1..Len(sel) |-> sel[i].line]

HunkInit ==
    /\ hasUI = TRUE
    /\ enabled = FALSE
    /\ editedCalls = <<>>
    /\ fs = RealFiles
    /\ calls = <<>>
    /\ pc = "idle"
    /\ staged = <<>>
    /\ status = StatusOf(FALSE)
    /\ shutdown = "no"
    /\ dEdits \in Scripts
    /\ dOld = EditLines(dEdits, {"keep", "delete"})
    /\ dNew = EditLines(dEdits, {"keep", "insert"})
    /\ dCtx = 0
    /\ dHunks = <<>>
    /\ dPc = "diffed"
    /\ NoSession
    /\ NoBridge

HunkNext == \E contextLines \in Contexts : HunkRun(contextLines)

SpecHunk == HunkInit /\ [][HunkNext]_vars

-----------------------------------------------------------------------------
(* The review session component (showReview for a write, showEditReview    *)
(* for an edit): scroll state and key handling.  Of the body only the      *)
(* number of its lines matters to scrolling; line i of the body (0-based)  *)
(* stands for bodyLines[i].                                                *)

\* const maxVisible = 30
maxVisible == 30

\* bodyLines.length - 5
TailMargin == 5

\* clampScroll(scrollOffset +- 15)
HalfPage == 15

\* now - lastGPress < 500
DoublePressWindow == 500

\* Bounds of the session: the longest body and the time a session is followed
MaxBody == 36

MaxElapsed == 1000

\* Date.now() when the session opens, in ms
StartTime == 1000

\* The time that may pass between two events, in ms
ClockSteps == {499, 500}

BodyLens == 1..MaxBody

\* MaxScrollOf that leaves a full window, not the tail margin, at the bottom
MaxScrollOfFullWindow(len) == Max(0, len - maxVisible - TailMargin)

\* Math.max(0, bodyLines.length - 5)
MaxScrollOf(len) == Max(0, len - TailMargin)

\* Math.max(0, Math.min(maxScroll, offset))
ClampTo(maxS, offset) == Max(0, Min(maxS, offset))

\* The indices of bodyLines.slice(scrollOffset, scrollOffset + maxVisible)
Visible(len, offset) == {i \in 0..(len - 1) : offset <= i /\ i < offset + maxVisible}

\* DoublePress that also accepts a press exactly 500 ms after the first
DoublePressInclusive(now, last) == now - last <= DoublePressWindow

\* if (now - lastGPress < 500)
DoublePress(now, last) == now - last < DoublePressWindow

\* ReloadOffset that keeps the offset whatever the new body
ReloadOffsetKept(offset, maxS) == offset

\* scrollOffset = Math.min(scrollOffset, maxScroll)
ReloadOffset(offset, maxS) == Min(offset, maxS)

ScrollInit ==
    /\ hasUI = TRUE
    /\ enabled = TRUE
    /\ editedCalls = <<>>
    /\ fs = RealFiles
    /\ calls = <<>>
    /\ pc = "idle"
    /\ staged = <<>>
    /\ status = StatusOf(TRUE)
    /\ shutdown = "no"
    /\ NoDiff
    /\ rvOp \in {"WRITE", "EDIT"}
    /\ bodyLen \in BodyLens
    /\ maxScroll = MaxScrollOf(bodyLen)
    /\ scrollOffset = 0
    /\ lastGPress = 0
    /\ clock = StartTime
    /\ rvPc = "open"
    /\ rvCached = Missing
    /\ NoBridge

\* The lines render builds for a body of len lines at the offset, at a fixed
\* width and theme: the lines of the window and, for a body longer than the
\* window, the scroll indicator `(lines ${first}-${end} of ${total} ...)`
RenderedLines(len, offset) ==
    [window |-> Visible(len, offset),
     indicator |-> IF len > maxVisible
                   THEN Some(<<offset + 1, Min(offset + maxVisible, len), len>>)
                   ELSE Missing]

\* refresh that requests a render without dropping the cached lines
refreshKeepsCache(cached) == cached

\* refresh(): cachedLines = undefined
refresh(cached) == Missing

\* clampScroll(offset); refresh()
clampScroll(offset) ==
    /\ scrollOffset' = ClampTo(maxScroll, offset)
    /\ rvCached' = refresh(rvCached)
    /\ UNCHANGED <<rvOp, bodyLen, maxScroll, lastGPress, clock, rvPc>>
    /\ UNCHANGED gateVars
    /\ UNCHANGED diffVars
    /\ UNCHANGED bridgeVars

\* k or Up
PressK ==
    /\ rvPc = "open"
    /\ clampScroll(scrollOffset - 1)

\* j or Down
PressJ ==
    /\ rvPc = "open"
    /\ clampScroll(scrollOffset + 1)

\* u or PgUp
PressU ==
    /\ rvPc = "open"
    /\ clampScroll(scrollOffset - HalfPage)

\* d or PgDn
PressD ==
    /\ rvPc = "open"
    /\ clampScroll(scrollOffset + HalfPage)

\* g
PressG ==
    /\ rvPc = "open"
    /\ IF DoublePress(clock, lastGPress)
       THEN /\ scrollOffset' = 0
            /\ rvCached' = refresh(rvCached)
            /\ lastGPress' = 0
       ELSE /\ lastGPress' = clock
            /\ UNCHANGED <<scrollOffset, rvCached>>
    /\ UNCHANGED <<rvOp, bodyLen, maxScroll, clock, rvPc>>
    /\ UNCHANGED gateVars
    /\ UNCHANGED diffVars
    /\ UNCHANGED bridgeVars

\* G
PressShiftG ==
    /\ rvPc = "open"
    /\ scrollOffset' = maxScroll
    /\ rvCached' = refresh(rvCached)
    /\ UNCHANGED <<rvOp, bodyLen, maxScroll, lastGPress, clock, rvPc>>
    /\ UNCHANGED gateVars
    /\ UNCHANGED diffVars
    /\ UNCHANGED bridgeVars

\* Ctrl+O.  reloaded is the number of lines read back from the staged file, or
\* Missing when the viewer or the read failed; only showReview reloads; both
\* sessions end the handler with refresh()
PressCtrlO(reloaded) ==
    /\ rvPc = "open"
    /\ IF rvOp = "WRITE" /\ reloaded # Missing
       THEN /\ bodyLen' = reloaded[1]
            /\ maxScroll' = MaxScrollOf(reloaded[1])
            /\ scrollOffset' = ReloadOffset(scrollOffset, MaxScrollOf(reloaded[1]))
       ELSE UNCHANGED <<bodyLen, maxScroll, scrollOffset>>
    /\ rvCached' = refresh(rvCached)
    /\ UNCHANGED <<rvOp, lastGPress, clock, rvPc>>
    /\ UNCHANGED gateVars
    /\ UNCHANGED diffVars
    /\ UNCHANGED bridgeVars

\* Enter, Esc, and Ctrl+E in showEditReview: done(...)
PressDone ==
    /\ rvPc = "open"
    /\ rvPc' = "closed"
    /\ UNCHANGED <<rvOp, bodyLen, maxScroll, scrollOffset, lastGPress, clock, rvCached>>
    /\ UNCHANGED gateVars
    /\ UNCHANGED diffVars
    /\ UNCHANGED bridgeVars

\* Time passes between two key presses
ClockTick(step) ==
    /\ rvPc = "open"
    /\ clock + step <= StartTime + MaxElapsed
    /\ clock' = clock + step
    /\ UNCHANGED <<rvOp, bodyLen, maxScroll, scrollOffset, lastGPress, rvPc, rvCached>>
    /\ UNCHANGED gateVars
    /\ UNCHANGED diffVars
    /\ UNCHANGED bridgeVars

\* render(width): the cached lines are returned if there are any, otherwise
\* the lines are built from the body and the offset, cached and returned
RenderSession ==
    /\ rvPc = "open"
    /\ rvCached = Missing
    /\ rvCached' = Some(RenderedLines(bodyLen, scrollOffset))
    /\ UNCHANGED <<rvOp, bodyLen, maxScroll, scrollOffset, lastGPress, clock, rvPc>>
    /\ UNCHANGED gateVars
    /\ UNCHANGED diffVars
    /\ UNCHANGED bridgeVars

\* invalidate(), called by the host: cachedLines = undefined
Invalidate ==
    /\ rvPc = "open"
    /\ rvCached # Missing
    /\ rvCached' = Missing
    /\ UNCHANGED <<rvOp, bodyLen, maxScroll, scrollOffset, lastGPress, clock, rvPc>>
    /\ UNCHANGED gateVars
    /\ UNCHANGED diffVars
    /\ UNCHANGED bridgeVars

ScrollNext ==
    \/ PressK
    \/ PressJ
    \/ PressU
    \/ PressD
    \/ PressG
    \/ PressShiftG
    \/ \E reloaded \in {Missing} \cup {Some(len) : len \in BodyLens} : PressCtrlO(reloaded)
    \/ PressDone
    \/ \E step \in ClockSteps : ClockTick(step)
    \/ RenderSession
    \/ Invalidate

SpecScroll == ScrollInit /\ [][ScrollNext]_vars

-----------------------------------------------------------------------------
(* Properties of the interception gate *)

HasCall == Len(calls) > 0

\* The call whose tool_call event arrived last
Latest == calls[Len(calls)]

\* A write or edit call with every required field present and a non-empty path
WellFormed(call) ==
    /\ call.proposal.path \notin {Missing, Some(PathEmpty)}
    /\ call.tool = "write" => call.proposal.content # Missing
    /\ call.tool = "edit" =>
            call.proposal.oldText # Missing /\ call.proposal.newText # Missing

\* The gate was on for the call: flag enabled and a UI available
GateOn(call) == call.wasEnabled /\ hasUI

Reviewed(call) == GateOn(call) /\ call.tool \in {"write", "edit"} /\ WellFormed(call)

\* C1: with slow mode enabled and a UI available, a well-formed write or edit
\* call proceeds only if its review ended in approve, and a rejected review
\* makes the handler return a block result with a reason.
C1_ProceedOnlyIfApproved ==
    HasCall /\ Reviewed(Latest) =>
        /\ Latest.ret = "undefined" => Latest.decision = "approve"
        /\ Latest.decision = "reject" => Latest.ret = "block" /\ Latest.reason # ""

\* A reviewed call has been rejected and blocked.
C1_Witness ==
    /\ HasCall
    /\ Reviewed(Latest)
    /\ Latest.decision = "reject"
    /\ Latest.ret = "block"

\* C2: until its review is approved, a step of the gate leaves the real
\* target path of the intercepted call as it was: nothing is written there
\* and nothing is deleted there.
C2_TargetUntouchedBeforeApproval ==
    [][Len(calls') > 0 =>
        LET call == calls'[Len(calls')]
        IN (Reviewed(call) /\ call.decision # "approve") =>
              ReadFile(fs', Target(call.proposal.path[1]))
                = ReadFile(fs, Target(call.proposal.path[1]))]_vars

\* C3: every path staged for a write or edit review lies under the session's
\* temporary root directory.
C3_StagedUnderTmpDir ==
    HasCall => \A i \in DOMAIN Latest.artifacts : Under(tmpDir, Latest.artifacts[i])

\* C4: when a review is approved and the staged new-content file can be read,
\* the outbound content is the content of that file; if it differs from the
\* proposal exactly one record, keyed by the call's id and holding the original
\* and the edited content, is created, and otherwise neither the input nor the
\* records change.
C4_ApprovedContentIsStagedContent ==
    [][(pc = "viewing" /\ pc' = "idle" /\ calls'[Len(calls)].decision = "approve"
            /\ ReadFile(fs, staged[Len(staged)]) # Missing) =>
        LET id == Len(calls)
            call == calls'[id]
            original == Proposed(call.tool, call.proposal)
            onDisk == ReadFile(fs, staged[Len(staged)])[1]
        IN /\ Proposed(call.tool, call.input) = onDisk
           /\ onDisk # original =>
                 editedCalls' = Put(editedCalls, id,
                                    [original |-> original, edited |-> onDisk])
           /\ onDisk = original =>
                 call.input = call.proposal /\ editedCalls' = editedCalls]_vars

\* An approved call runs with content that differs from its proposal, and its
\* record is held.
C4_Witness ==
    /\ HasCall
    /\ Latest.decision = "approve"
    /\ Latest.input # Latest.proposal
    /\ Len(calls) \in DOMAIN editedCalls

\* C5: however a review that was shown concludes, every file staged for it has
\* been deleted when the tool_call handler of the call has finished.
C5_ArtifactsDeletedWhenHandlerEnds ==
    (HasCall /\ Latest.started /\ Latest.ret # "pending") =>
        \A i \in DOMAIN Latest.artifacts : Latest.artifacts[i] \notin DOMAIN fs

\* C6: a failure of an external viewer or editor never ends the tool_call
\* handler with an exception.
C6_ExternalFailureContained ==
    HasCall => Latest.abort # "editor"

\* C7: once the tool_result handler of a call has run, no substitution record
\* of that call is left.
C7_RecordGoneAfterToolResult ==
    \A id \in DOMAIN calls : calls[id].resulted => id \notin DOMAIN editedCalls

\* C8: with the flag off or no UI, and for tools other than write and edit,
\* the tool_call handler returns nothing at once: the input is as proposed,
\* nothing is staged and no review is started.
C8_PassThroughUntouched ==
    [][(Len(calls') = Len(calls) + 1
            /\ (~GateOn(calls'[Len(calls')])
                    \/ calls'[Len(calls')].tool \notin {"write", "edit"})) =>
        /\ calls'[Len(calls')].ret = "undefined"
        /\ calls'[Len(calls')].input = calls'[Len(calls')].proposal
        /\ calls'[Len(calls')].artifacts = <<>>
        /\ fs' = fs
        /\ editedCalls' = editedCalls
        /\ pc' = "idle"]_vars

\* A well-formed write arrived in a session without UI and passed through.
C8_Witness ==
    /\ HasCall
    /\ ~hasUI
    /\ Latest.tool = "write"
    /\ WellFormed(Latest)
    /\ Latest.ret = "undefined"

\* C20: a write review resolves only to approve or reject; the edit decision
\* comes only from an edit review, and a call whose handler has returned
\* (proceed or block) after a review was decided by approve or reject, never
\* by edit.
C20_EditAgainOnlyInEditReview ==
    HasCall =>
        /\ Latest.tool = "write" => Latest.decision \in {"none", "approve", "reject"}
        /\ Latest.decision = "edit" => Latest.tool = "edit"
        /\ (Latest.started /\ Latest.ret \in {"undefined", "block"}) =>
                Latest.decision \in {"approve", "reject"}

\* An edit review was ended by Ctrl+E and the review loop shows the next
\* session: the handler has not returned.
C20_Witness ==
    /\ HasCall
    /\ Latest.tool = "edit"
    /\ Latest.decision = "edit"
    /\ Latest.ret = "pending"
    /\ pc = "viewing"

-----------------------------------------------------------------------------
(* Properties of the diff engine *)

ChangeCount(edits) == Cardinality({i \in DOMAIN edits : edits[i].type # "keep"})

\* Length of a longest common subsequence, by the textbook recurrence on prefixes
RECURSIVE LcsLen(_, _, _, _)
LcsLen(a, b, i, j) ==
    IF i = 0 \/ j = 0 THEN 0
    ELSE IF a[i] = b[j] THEN LcsLen(a, b, i - 1, j - 1) + 1
    ELSE LET up == LcsLen(a, b, i - 1, j)
             left == LcsLen(a, b, i, j - 1)
         IN IF up >= left THEN up ELSE left

Lcs(a, b) == LcsLen(a, b, Len(a), Len(b))

\* C9: the edit script returned by myersDiff replays exactly: its keep and
\* delete lines, in order, are the old sequence and its keep and insert lines,
\* in order, are the new sequence.
C9_ScriptReplays ==
    dPc = "diffed" =>
        /\ EditLines(dEdits, {"keep", "delete"}) = dOld
        /\ EditLines(dEdits, {"keep", "insert"}) = dNew

\* A script holding all three operations has been produced.
C9_Witness ==
    /\ dPc = "diffed"
    /\ {dEdits[i].type : i \in DOMAIN dEdits} = {"keep", "insert", "delete"}

\* C10: the number of insert and delete operations of the script is the
\* minimal edit distance N + M - 2 * LCS(old, new).
C10_ScriptMinimal ==
    dPc = "diffed" =>
        ChangeCount(dEdits) = Len(dOld) + Len(dNew) - 2 * Lcs(dOld, dNew)

\* A pair with a common subsequence and at least two changes has been diffed.
C10_Witness ==
    /\ dPc = "diffed"
    /\ Lcs(dOld, dNew) >= 2
    /\ ChangeCount(dEdits) >= 2

-----------------------------------------------------------------------------
(* Properties of the hunk builder *)

\* The script holds exactly two insert/delete operations
TwoChanges == Len(ChangeIndices(dEdits)) = 2

\* The number of unchanged lines between the two changes
GapBetween == ChangeIndices(dEdits)[2] - ChangeIndices(dEdits)[1] - 1

\* C11: two single-line changes separated by exactly 2*contextLines+1
\* unchanged lines give two hunks, and separated by 2*contextLines or fewer
\* unchanged lines (at least one) give exactly one hunk.
C11_HunkMerging ==
    (dPc = "hunked" /\ TwoChanges /\ GapBetween >= 1) =>
        /\ GapBetween = 2 * dCtx + 1 => Len(dHunks) = 2
        /\ GapBetween <= 2 * dCtx => Len(dHunks) = 1

\* C12: the hunks are in increasing position order and never overlap: the
\* script index range of each hunk, and so its old-line range and its new-line
\* range, ends strictly before the range of the next hunk begins.
C12_HunksOrderedDisjoint ==
    (dPc = "hunked" /\ Len(dHunks) >= 2) =>
        LET groups == Groups(dEdits, dCtx)
        IN /\ Len(groups) = Len(dHunks)
           /\ \A g \in 1..(Len(dHunks) - 1) :
                /\ HunkEnd(dEdits, groups[g], dCtx) < HunkStart(groups[g + 1], dCtx)
                /\ dHunks[g].oldStart + dHunks[g].oldCount <= dHunks[g + 1].oldStart
                /\ dHunks[g].newStart + dHunks[g].newCount <= dHunks[g + 1].newStart

\* Three hunks with context around them have been built, two of them touching.
C12_Witness ==
    /\ dPc = "hunked"
    /\ dCtx >= 1
    /\ Len(dHunks) = 3
    /\ dHunks[1].oldStart + dHunks[1].oldCount = dHunks[2].oldStart

\* C13: diffing a line sequence against itself gives a script of keep
\* operations only, one per line, and zero hunks.
C13_SelfDiffNoHunks ==
    (dPc = "hunked" /\ dOld = dNew) =>
        /\ Len(dEdits) = Len(dOld)
        /\ \A i \in DOMAIN dEdits : dEdits[i] = Keep(dOld[i])
        /\ dHunks = <<>>

\* A sequence of MaxLen lines, one of them repeated, has been diffed against
\* itself.
C13_Witness ==
    /\ dPc = "hunked"
    /\ dOld = dNew
    /\ Len(dOld) = MaxLen
    /\ Cardinality({dOld[i] : i \in DOMAIN dOld}) = 2

\* new is old with line i replaced by a different line
ReplacedAt(i) ==
    /\ Len(dOld) = Len(dNew)
    /\ i \in DOMAIN dOld
    /\ dOld[i] # dNew[i]
    /\ \A j \in DOMAIN dOld \ {i} : dOld[j] = dNew[j]

\* The script that keeps the lines before i, deletes old line i, inserts new
\* line i and keeps the lines after i
ReplaceScript(i) ==
    [j \in 1..(Len(dOld) + 1) |->
        IF j < i THEN Keep(dOld[j])
        ELSE IF j = i THEN Delete(dOld[i])
        ELSE IF j = i + 1 THEN Insert(dNew[i])
        ELSE Keep(dOld[j - 1])]

\* C14: replacing one line of an otherwise identical sequence gives exactly
\* one hunk, in which the deleted line comes immediately before the inserted
\* line, between the surrounding unchanged lines; old = [a, b, c],
\* new = [a, x, c] with contextLines = 3 gives the one hunk @@ -1,3 +1,3 @@
\* with lines " a", "-b", "+x", " c".
C14_ReplaceOneLine ==
    dPc = "hunked" =>
        /\ \A i \in DOMAIN dOld : ReplacedAt(i) =>
              /\ dEdits = ReplaceScript(i)
              /\ Len(dHunks) = 1
              /\ \E first \in 1..i : \E last \in (i + 1)..Len(dEdits) :
                    dHunks[1].lines =
                        [j \in 1..(last - first + 1) |-> HunkLine(dEdits[first + j - 1])]
        /\ (dOld = ScenarioOld /\ dNew = ScenarioNew /\ dCtx = 3) =>
              /\ Len(dHunks) = 1
              /\ HunkHeader(dHunks[1]) = <<1, 3, 1, 3>>
              /\ dHunks[1].lines = <<" a", "-b", "+x", " c">>

\* The rounds of the forward search: the snapshots pushed onto the trace
SearchRounds == Len(MyersTrace(dOld, dNew))

\* The last round of the forward search reached the end of both sequences
SearchReachedEnd ==
    LET trace == MyersTrace(dOld, dNew)
        d == Len(trace) - 1
    IN d >= 0 /\ ForwardK(dOld, dNew, trace[d + 1], d, -d).reached

\* C15: for every pair of line sequences, empty ones included, myersDiff and
\* buildHunks end without error: the forward search ends within rounds 0..N+M
\* (by reaching the end of both sequences; for two empty sequences x is read
\* as undefined from outside v and the loop ends with its only round), the
\* backtrack consumes exactly N old and M new lines (it ends at (0,0)) and
\* emits only lines that exist, every hunk is well formed, and an empty script
\* gives zero hunks.
C15_DiffTotal ==
    dPc = "hunked" =>
        /\ SearchRounds <= Len(dOld) + Len(dNew) + 1
        /\ Len(dOld) + Len(dNew) > 0 => SearchReachedEnd
        /\ Len(EditLines(dEdits, {"keep", "delete"})) = Len(dOld)
        /\ Len(EditLines(dEdits, {"keep", "insert"})) = Len(dNew)
        /\ \A i \in DOMAIN dEdits :
              /\ dEdits[i].type \in EditTypes
              /\ dEdits[i].line # LineAt(<<>>, 0)
        /\ \A g \in DOMAIN dHunks :
              /\ dHunks[g].oldStart >= 1
              /\ dHunks[g].newStart >= 1
              /\ Len(dHunks[g].lines) >= 1
        /\ dEdits = <<>> => dHunks = <<>>

\* Two sequences of MaxLen lines without a common line have been diffed: the
\* search took all N+M+1 rounds.
C15_Witness ==
    /\ dPc = "hunked"
    /\ Len(dOld) = MaxLen
    /\ Len(dNew) = MaxLen
    /\ SearchRounds = Len(dOld) + Len(dNew) + 1
    /\ Len(dHunks) = 1

\* The two empty sequences have been diffed: an empty script and zero hunks.
C15_WitnessEmpty ==
    /\ dPc = "hunked"
    /\ dOld = <<>>
    /\ dNew = <<>>
    /\ dEdits = <<>>

-----------------------------------------------------------------------------
(* Properties of the review session component *)

\* C16: in a session whose body fits entirely in the visible window, a
\* down-scroll request (j, d or G) made at offset 0 leaves the offset at 0, so
\* the offset stays 0 after any sequence of them.
C16_FittingBodyStaysAtTop ==
    [][(bodyLen <= maxVisible /\ scrollOffset = 0
            /\ (PressJ \/ PressD \/ PressShiftG)) =>
        scrollOffset' = 0]_vars

\* C17: after any sequence of key inputs and reloads the scroll offset lies
\* in [0, max(0, totalLines - 5)] for the body currently shown, also right
\* after a reload that shortened the body.
C17_OffsetWithinBounds ==
    /\ scrollOffset >= 0
    /\ scrollOffset <= Max(0, bodyLen - TailMargin)

\* A write review shows a body shorter than the window at the largest offset
\* its bounds allow, after the g key has been used.
C17_Witness ==
    /\ rvOp = "WRITE"
    /\ rvPc = "open"
    /\ bodyLen < maxVisible
    /\ scrollOffset = bodyLen - TailMargin
    /\ scrollOffset > 0
    /\ lastGPress > 0

\* C18: the last body line is always reachable: G sets the offset to its
\* maximum and the window then holds the last body line; j moves the offset up
\* by one until the maximum, so every offset up to it is reachable, and every
\* body line is in the window at one of these offsets.
C18_LastLineReachable ==
    [][/\ PressShiftG =>
            /\ scrollOffset' = Max(0, bodyLen - TailMargin)
            /\ (bodyLen - 1) \in Visible(bodyLen, scrollOffset')
            /\ \A i \in 0..(bodyLen - 1) :
                  \E offset \in 0..scrollOffset' : i \in Visible(bodyLen, offset)
       /\ (PressJ /\ scrollOffset < Max(0, bodyLen - TailMargin)) =>
            scrollOffset' = scrollOffset + 1]_vars

\* G was pressed in a body longer than the window and the tail margin: the
\* window holds the last line and no longer the first.
C18_Witness ==
    /\ rvPc = "open"
    /\ bodyLen > maxVisible + TailMargin
    /\ scrollOffset = bodyLen - TailMargin
    /\ (bodyLen - 1) \in Visible(bodyLen, scrollOffset)
    /\ 0 \notin Visible(bodyLen, scrollOffset)

\* C19: a g press goes to the top only when a first press is remembered and
\* less than 500 ms old: it then sets the offset to 0 and clears the memory.
\* Any other g press (the first one, or one after the window has expired)
\* leaves the offset unchanged and remembers the time of this press.
C19_DoublePressGoesToTop ==
    [][PressG =>
        IF lastGPress # 0 /\ clock - lastGPress < DoublePressWindow
        THEN scrollOffset' = 0 /\ lastGPress' = 0
        ELSE scrollOffset' = scrollOffset /\ lastGPress' = clock]_vars

\* A g press made 500 ms or more into the session (a first press, or a second
\* one that came after the window had expired) is remembered, the body is
\* scrolled down, and 499 ms later the memory is still fresh.
C19_Witness ==
    /\ rvPc = "open"
    /\ scrollOffset > 0
    /\ lastGPress >= StartTime + DoublePressWindow
    /\ clock - lastGPress = DoublePressWindow - 1

-----------------------------------------------------------------------------
(* Properties of the review loop and of the session's lifecycle *)

\* The review in flight is an edit review
EditReview == pc = "viewing" /\ Latest.tool = "edit"

\* The review in flight is a write review
WriteReview == pc = "viewing" /\ Latest.tool = "write"

\* C21: in an edit review every Ctrl+E (edit again) returns to Viewing with
\* the diff of the staged old and new files as they are on disk after the
\* editor, and the call stays pending: the review ends only on approve or
\* reject.
C21_EditAgainReturnsToViewing ==
    [][(\E ok \in BOOLEAN : KeyCtrlE(ok)) =>
            /\ pc' = "viewing"
            /\ calls'[Len(calls)].ret = "pending"
            /\ ReadFile(fs', staged[1]) # Missing
            /\ ReadFile(fs', staged[2]) # Missing
            /\ calls'[Len(calls)].body =
                    EditBody(Latest.proposal.path[1],
                             ReadFile(fs', staged[1])[1], ReadFile(fs', staged[2])[1])]_vars

\* C22: Ctrl+O (open externally) never resolves the review, in a write review
\* and in an edit review, whether the viewer ran or failed: the session is
\* still awaiting a key, no decision was taken, the call is still pending and
\* its staged files are still the staged files.
C22_OpenExternallyNeverResolves ==
    [][(\E ok \in BOOLEAN : KeyCtrlO(ok)) =>
            /\ pc' = "viewing"
            /\ staged' = staged
            /\ editedCalls' = editedCalls
            /\ calls'[Len(calls)].ret = "pending"
            /\ calls'[Len(calls)].decision = Latest.decision
            /\ calls'[Len(calls)].input = Latest.input]_vars

\* A review still open after Ctrl+O changed the staged new content
C22_Witness ==
    /\ HasCall
    /\ pc = "viewing"
    /\ Latest.ret = "pending"
    /\ Latest.decision = "none"
    /\ ReadFile(fs, staged[Len(staged)]) # Some(Proposed(Latest.tool, Latest.proposal))

\* The latest call was approved with content other than the proposal
SubstitutedAtApproval ==
    /\ HasCall
    /\ Latest.decision = "approve"
    /\ Substituted(Latest.readBack, Proposed(Latest.tool, Latest.proposal))

C23_WitnessLonger ==
    /\ SubstitutedAtApproval
    /\ Latest.readBack = Some(TextAB)
    /\ Latest.notes = <<1>>

\* C24: with the gate on, a write call with a missing or empty path or with
\* missing content, and an edit call with a missing or empty path or with
\* oldText or newText missing, passes through silently: the handler has
\* returned nothing, nothing threw, the input is as proposed, no artifact was
\* staged and no review was started.
C24_MalformedPassesThrough ==
    (HasCall /\ GateOn(Latest) /\ Latest.tool \in {"write", "edit"}
            /\ ~WellFormed(Latest)) =>
        /\ Latest.ret = "undefined"
        /\ Latest.abort = "none"
        /\ Latest.input = Latest.proposal
        /\ Latest.artifacts = <<>>
        /\ ~Latest.started
        /\ Latest.decision = "none"
        /\ pc = "idle"
        /\ staged = <<>>

\* With the gate on, an edit call with the empty path and both texts present
\* has passed through
C24_Witness ==
    /\ HasCall
    /\ GateOn(Latest)
    /\ Latest.tool = "edit"
    /\ Latest.proposal.path = Some(PathEmpty)
    /\ Latest.proposal.oldText # Missing
    /\ Latest.proposal.newText # Missing
    /\ Latest.ret = "undefined"

\* With the gate on, a write call with a path and no content has passed through
C24_WitnessNoContent ==
    /\ HasCall
    /\ GateOn(Latest)
    /\ Latest.tool = "write"
    /\ Latest.proposal.path = Some(PathRel)
    /\ Latest.proposal.content = Missing
    /\ Latest.ret = "undefined"

\* C25: the flag starts disabled with no indicator; a toggle command in a
\* session with a UI flips the flag and leaves the indicator set exactly if the
\* flag is now enabled (so after n such commands the flag is enabled iff n is
\* odd); a toggle command without a UI changes neither, and nothing but the
\* toggle command changes either.
C25_ToggleFlipsFlagAndIndicator ==
    /\ ~enabled
    /\ status = Missing
    /\ [][IF Toggle /\ hasUI
           THEN /\ enabled' = ~enabled
                /\ status' = IF enabled' THEN Some(StatusText) ELSE Missing
           ELSE /\ enabled' = enabled
                /\ status' = status]_vars

\* Slow mode was on when the latest call arrived and was toggled off
\* afterwards: the indicator is cleared
C25_Witness ==
    /\ hasUI
    /\ HasCall
    /\ Latest.wasEnabled
    /\ ~enabled
    /\ status = Missing

\* Files under the session's temporary root
UnderRoot == {path \in DOMAIN fs : Under(tmpDir, path)}

\* C26: once session_shutdown has run, its handler has returned without
\* raising whether or not the temporary root could be removed, and when the
\* removal went through no file is left under the root, also when a review was
\* in flight at that moment.
C26_ShutdownEmptiesRoot ==
    shutdown # "no" =>
        /\ shutdown \in {"removed", "failed"}
        /\ shutdown = "removed" => UnderRoot = {}

\* Shutdown removed the artifacts of an edit review that was in flight
C26_Witness ==
    /\ shutdown = "removed"
    /\ HasCall
    /\ pc = "viewing"
    /\ Latest.tool = "edit"
    /\ Latest.ret = "pending"
    /\ Len(Latest.artifacts) = 2
    /\ \A i \in DOMAIN Latest.artifacts :
            Under(tmpDir, Latest.artifacts[i]) /\ Latest.artifacts[i] \notin DOMAIN fs

\* Shutdown could not remove the root: the artifacts of the review in flight
\* are still there and nothing was raised
C26_WitnessFailed ==
    /\ shutdown = "failed"
    /\ pc = "viewing"
    /\ UnderRoot # {}

C27_WitnessWrite ==
    /\ HasCall
    /\ Latest.tool = "write"
    /\ Latest.fault = "first"
    /\ Latest.ret = "threw"

\* The body a review session would display for the staged files as they are
\* on disk, applied being the new content: the content itself in a write
\* review, the diff from the staged old text in an edit review
FreshBody(call, files, paths, applied) ==
    IF call.tool = "write" THEN applied
    ELSE LET old == ReadFile(files, paths[1])
         IN EditBody(call.proposal.path[1],
                     IF old = Missing THEN call.proposal.oldText[1] ELSE old[1],
                     applied)

\* C28: at every approval (Enter) the content the tool will run with, the
\* staged new content as read back, is the content the body displayed at that
\* moment stands for.
C28_ApprovedContentIsDisplayed ==
    [][KeyEnter =>
            LET applied == Proposed(Latest.tool, calls'[Len(calls)].input)
            IN Latest.body = FreshBody(Latest, fs, staged, applied)]_vars

\* C29: in a write review, when the external editor opened by Ctrl+O returns
\* without an exception, the body is the content of the staged file as it is
\* on disk and the cached render lines are reset; when that file cannot be
\* read the body is the one displayed before; either way the session is still
\* awaiting a key.  Cached render lines, when there are any, were rendered
\* from the current body.
C29_ReloadAfterOpenExternally ==
    [][
        /\ (KeyCtrlO(TRUE) /\ Latest.tool = "write") =>
                LET read == ReadFile(fs', staged[1])
                    after == calls'[Len(calls)]
                IN /\ pc' = "viewing"
                   /\ after.ret = "pending"
                   /\ after.cachedLines = Missing
                   /\ read # Missing => after.body = read[1]
                   /\ read = Missing => after.body = Latest.body
        /\ pc' = "viewing" =>
                LET shown == calls'[Len(calls')]
                IN shown.cachedLines \in {Missing, Some(shown.body)}
    ]_vars

\* A write review displays the content an external editor left in the staged
\* file, not yet rendered again
C29_Witness ==
    /\ HasCall
    /\ WriteReview
    /\ Latest.body # Proposed(Latest.tool, Latest.proposal)
    /\ ReadFile(fs, staged[1]) = Some(Latest.body)
    /\ Latest.cachedLines = Missing

\* A write review whose staged file is gone still displays a body
C29_WitnessReloadFailed ==
    /\ HasCall
    /\ WriteReview
    /\ ReadFile(fs, staged[1]) = Missing
    /\ Latest.body = TextAB

-----------------------------------------------------------------------------
(* The hunks as a patch *)

Range(seq) == {seq[i] : i \in DOMAIN seq}

\* The prefix of a hunk line: " ", "-" or "+"
HunkLinePrefix(hunkLine, lines) ==
    CHOOSE prefix \in {" ", "-", "+"} : \E l \in lines : hunkLine = prefix \o l

\* The line a hunk line carries after its prefix
HunkLineText(hunkLine, lines) ==
    CHOOSE l \in lines : \E prefix \in {" ", "-", "+"} : hunkLine = prefix \o l

\* The lines of a hunk with one of the given prefixes, without the prefix
HunkSide(hunk, prefixes, lines) ==
    LET chosen == SelectSeq(hunk.lines,
                            LAMBDA hl : HunkLinePrefix(hl, lines) \in prefixes)
    IN [i \in DOMAIN chosen |-> HunkLineText(chosen[i], lines)]

\* A line no text of the model holds: the output of a patch that does not apply
Rejected == <<"<rejected>">>

\* The hunks applied to old as a patch, from old line pos on: the old lines
\* before a hunk's oldStart are copied, the hunk's " " and "-" lines must be
\* the old lines from oldStart on and are replaced by its " " and "+" lines,
\* and the old lines after the last hunk are copied
RECURSIVE ApplyHunks(_, _, _, _)
ApplyHunks(old, hunks, pos, lines) ==
    IF hunks = <<>> THEN SubSeq(old, pos, Len(old))
    ELSE LET hunk == Head(hunks)
             oldSide == HunkSide(hunk, {" ", "-"}, lines)
             newSide == HunkSide(hunk, {" ", "+"}, lines)
             next == hunk.oldStart + Len(oldSide)
         IN IF \/ hunk.oldStart < pos
               \/ next - 1 > Len(old)
               \/ SubSeq(old, hunk.oldStart, next - 1) # oldSide
               \/ hunk.oldCount # Len(oldSide)
               \/ hunk.newCount # Len(newSide)
            THEN Rejected
            ELSE SubSeq(old, pos, hunk.oldStart - 1) \o newSide
                    \o ApplyHunks(old, Tail(hunks), next, lines)

\* The number of "-" and "+" lines of the hunks
RECURSIVE ChangesIn(_, _)
ChangesIn(hunks, lines) ==
    IF hunks = <<>> THEN 0
    ELSE Len(HunkSide(Head(hunks), {"-", "+"}, lines)) + ChangesIn(Tail(hunks), lines)

\* The hunks whose range of the edit script holds index i
HunksHolding(edits, contextLines, i) ==
    IF ChangeIndices(edits) = <<>> THEN {}
    ELSE LET groups == Groups(edits, contextLines)
         IN {g \in DOMAIN groups :
                /\ HunkStart(groups[g], contextLines) <= i
                /\ i <= HunkEnd(edits, groups[g], contextLines)}

\* C30: for every script and every contextLines, the hunks applied to the old
\* sequence as a patch give exactly the new sequence, and every insert and
\* delete of the script is in exactly one hunk.
C30_HunksPatchOldToNew ==
    dPc = "hunked" =>
        LET lines == Range(dOld) \cup Range(dNew)
        IN /\ ApplyHunks(dOld, dHunks, 1, lines) = dNew
           /\ ChangesIn(dHunks, lines) = ChangeCount(dEdits)
           /\ \A i \in 0..(Len(dEdits) - 1) :
                    EditAt(dEdits, i).type # "keep" =>
                        Cardinality(HunksHolding(dEdits, dCtx, i)) = 1

\* Two hunks with unchanged old lines before, between and after them, none of
\* them in a hunk
C30_Witness ==
    /\ dPc = "hunked"
    /\ Len(dHunks) = 2
    /\ dHunks[1].oldStart > 1
    /\ dHunks[2].oldStart > dHunks[1].oldStart + dHunks[1].oldCount
    /\ dHunks[2].oldStart + dHunks[2].oldCount <= Len(dOld)
    /\ dOld # dNew

-----------------------------------------------------------------------------
(* The hunk headers and windows *)

\* The number of operations of the given types among edits[from..to]
\* (0-based, inclusive), counted one by one
RECURSIVE CountOps(_, _, _, _)
CountOps(edits, from, to, types) ==
    IF from > to THEN 0
    ELSE (IF EditAt(edits, from).type \in types THEN 1 ELSE 0)
            + CountOps(edits, from + 1, to, types)

\* C31: the window of every hunk is its change group widened by contextLines
\* on each side and clamped to the script; its lines are the operations of the
\* window; oldStart is 1 plus the keeps and deletes before the window,
\* newStart 1 plus the keeps and inserts before it; oldCount and newCount are
\* the keeps and deletes, and the keeps and inserts, of the window.
C31_HunkHeaderAndWindow ==
    (dPc = "hunked" /\ dHunks # <<>>) =>
        LET groups == Groups(dEdits, dCtx)
        IN /\ Len(dHunks) = Len(groups)
           /\ \A g \in DOMAIN dHunks :
                LET first == IF groups[g].start - dCtx < 0 THEN 0
                             ELSE groups[g].start - dCtx
                    last == IF groups[g].end + dCtx > Len(dEdits) - 1
                            THEN Len(dEdits) - 1
                            ELSE groups[g].end + dCtx
                    hunk == dHunks[g]
                IN /\ Len(hunk.lines) = last - first + 1
                   /\ \A j \in DOMAIN hunk.lines :
                        hunk.lines[j] = HunkLine(EditAt(dEdits, first + j - 1))
                   /\ hunk.oldStart = 1 + CountOps(dEdits, 0, first - 1, {"keep", "delete"})
                   /\ hunk.newStart = 1 + CountOps(dEdits, 0, first - 1, {"keep", "insert"})
                   /\ hunk.oldCount = CountOps(dEdits, first, last, {"keep", "delete"})
                   /\ hunk.newCount = CountOps(dEdits, first, last, {"keep", "insert"})

\* A second hunk that starts at different old and new line numbers and whose
\* window is cut short by the end of the script
C31_Witness ==
    /\ dPc = "hunked"
    /\ dCtx >= 1
    /\ Len(dHunks) = 2
    /\ dHunks[2].oldStart # dHunks[2].newStart
    /\ Groups(dEdits, dCtx)[2].end + dCtx > Len(dEdits) - 1
    /\ Groups(dEdits, dCtx)[1].start - dCtx < 0

-----------------------------------------------------------------------------
(* The render cache of a review session *)

\* What render returns now: the cached lines if there are any, otherwise the
\* lines built from the body and the offset
RenderReturns ==
    IF rvCached # Missing THEN rvCached[1] ELSE RenderedLines(bodyLen, scrollOffset)

\* C32: after any sequence of scroll keys, gg, G and open-externally reloads,
\* in showReview and in showEditReview, the lines render returns are the lines
\* an uncached render of the current body and scroll offset builds.
C32_RenderEqualsUncachedRender ==
    rvPc = "open" => RenderReturns = RenderedLines(bodyLen, scrollOffset)

\* Lines cached after the body was scrolled away from the top
C32_Witness ==
    /\ rvPc = "open"
    /\ scrollOffset > 0
    /\ bodyLen > maxVisible
    /\ rvCached = Some(RenderedLines(bodyLen, scrollOffset))

-----------------------------------------------------------------------------
(* The external tool bridge *)

\* findDiffTool's candidates, in its order
Candidates == <<"delta", "nvim", "vim", "diff">>

Programs == {Candidates[i] : i \in 1..Len(Candidates)}

\* findDiffTool's null
NoTool == "none"

RECURSIVE FirstOnPath(_, _)
\* The loop of findDiffTool from candidate i on: `which` succeeds for the
\* programs on the path
FirstOnPath(path, i) ==
    IF i > Len(Candidates) THEN NoTool
    ELSE IF Candidates[i] \in path THEN Candidates[i]
    ELSE FirstOnPath(path, i + 1)

\* Discovery that takes the plain diff whenever there is one
findDiffToolPlainFirst(path) ==
    IF "diff" \in path THEN "diff" ELSE FirstOnPath(path, 1)

findDiffTool(path) == FirstOnPath(path, 1)

\* One execFileSync: the program, what it was given, whether it returned
\* normally.  given is "paths" (the two staged paths), "new" (the new-content
\* path alone), "stdin-diff" (the output of a diff -u that exited 0),
\* "stdin-relabelled" (e.stdout with its two header lines replaced), or
\* "stdin-patch" (renderWithDelta's temporary file)
Run(cmd, given, ok) == [cmd |-> cmd, given |-> given, ok |-> ok]

\* How `diff -u oldPath newPath` can end: exit 0 with empty output, exit 1 with
\* the diff on stdout, exit 2 with nothing on stdout, or no such program
DiffExits == {"same", "differ", "trouble", "missing"}

\* The processes the delta branch of openExternalDiff runs.  The stdin feed
\* after an exit 0 is inside the try; after an exit 1 it is inside the catch
\* (e.stdout is set); the direct comparison is run when the caught error has
\* no stdout: diff's own failure without output, or delta's failure after an
\* exit 0 (delta's stdout is inherited, so its error carries none)
DeltaRuns(diffExit, feedOk, lastOk) ==
    IF diffExit = "same"
    THEN <<Run("diff", "paths", TRUE), Run("delta", "stdin-diff", feedOk)>>
            \o (IF feedOk THEN <<>> ELSE <<Run("delta", "paths", lastOk)>>)
    ELSE IF diffExit = "differ"
    THEN <<Run("diff", "paths", FALSE), Run("delta", "stdin-relabelled", feedOk)>>
    ELSE <<Run("diff", "paths", FALSE), Run("delta", "paths", lastOk)>>

\* openExternalFile(filePath): the editor of $VISUAL, $EDITOR, or less
EditorRun(ok) == Run("editor", "new", ok)

\* The processes openExternalDiff runs for the discovered tool
BridgeRuns(tool, diffExit, feedOk, lastOk) ==
    IF tool = NoTool THEN <<EditorRun(lastOk)>>
    ELSE IF tool = "delta" THEN DeltaRuns(diffExit, feedOk, lastOk)
    ELSE <<Run(tool, "paths", lastOk)>>

\* execFileSync throws when its process fails; only the failures of the diff -u
\* probe are caught, so the call raises exactly when its last process failed
Raises(runs) == ~runs[Len(runs)].ok

\* The state of the programs on the path changes between two calls
SetPath(tools) ==
    /\ tools # onPath
    /\ onPath' = tools
    /\ UNCHANGED <<deltaAvailable, spawned, bridgeOut, tmpPatch>>
    /\ UNCHANGED gateVars
    /\ UNCHANGED diffVars
    /\ UNCHANGED scrollVars

\* openExternalDiff(oldPath, newPath, label).  diffExit is how diff -u ends,
\* feedOk whether delta fed through stdin succeeds, lastOk whether the one
\* other process succeeds
OpenExternalDiff(diffExit, feedOk, lastOk) ==
    LET tool == findDiffTool(onPath)
        runs == BridgeRuns(tool, diffExit, feedOk, lastOk)
    IN  /\ (diffExit = "missing") = ("diff" \notin onPath)
        /\ spawned' = runs
        /\ bridgeOut' = [op |-> "openExternalDiff", tool |-> tool,
                         raised |-> Raises(runs), value |-> Missing]
        /\ UNCHANGED <<onPath, deltaAvailable, tmpPatch>>
        /\ UNCHANGED gateVars
        /\ UNCHANGED diffVars
        /\ UNCHANGED scrollVars

\* hasDelta(): the cached answer, or whether `delta --version` runs
hasDelta(cache, path) == IF cache # Missing THEN cache[1] ELSE "delta" \in path

\* The diffs handed to renderWithDelta
Patches ==
    {generateUnifiedDiff(PathRel, TextA, TextB, DefaultContextLines),
     generateUnifiedDiff(PathRel, TextB, TextAB, DefaultContextLines)}

\* delta --color-only writes the diff with ANSI colour sequences in it: a text
\* that is not the one it read
Colored(diff) == <<"\\x1b[m">> \o diff

\* How `delta --no-gitconfig --color-only < tmpFile` can end
DeltaExits == {"ok", "timeout", "nonzero", "missing"}

\* A colorizer whose output is returned whether or not it succeeded
DeltaOutputUnchecked(exit, diff) == Colored(diff)

\* What the try block of renderWithDelta returns: the result of execSync, or
\* the original diff from the catch
DeltaOutput(exit, diff) == IF exit = "ok" THEN Colored(diff) ELSE diff

\* What the finally block leaves of the temporary directory: unlinkSync throws
\* when the patch file was never written, and rmSync is then not reached
AfterCleanup(written) == IF written THEN {} ELSE {"dir"}

\* renderWithDelta(unifiedDiff).  mkOk: mkdtempSync succeeds; writeOk:
\* writeFileSync succeeds; exit: how delta ends
RenderWithDelta(diff, mkOk, writeOk, exit) ==
    LET has == hasDelta(deltaAvailable, onPath)
        probe == IF deltaAvailable = Missing
                 THEN <<Run("delta", "version", has)>> ELSE <<>>
        out(raised, value) ==
            [op |-> "renderWithDelta", tool |-> exit, raised |-> raised, value |-> value]
    IN  /\ (exit = "missing") = ("delta" \notin onPath)
        /\ deltaAvailable' = Some(has)
        /\ IF ~has
           THEN /\ spawned' = probe
                /\ bridgeOut' = out(FALSE, Some(diff))
                /\ tmpPatch' = {}
           ELSE IF ~mkOk
           THEN /\ spawned' = probe
                /\ bridgeOut' = out(TRUE, Missing)
                /\ tmpPatch' = {}
           ELSE IF ~writeOk
           THEN /\ spawned' = probe
                /\ bridgeOut' = out(FALSE, Some(diff))
                /\ tmpPatch' = AfterCleanup(FALSE)
           ELSE /\ spawned' = probe \o <<Run("delta", "stdin-patch", exit = "ok")>>
                /\ bridgeOut' = out(FALSE, Some(DeltaOutput(exit, diff)))
                /\ tmpPatch' = AfterCleanup(TRUE)
        /\ UNCHANGED onPath
        /\ UNCHANGED gateVars
        /\ UNCHANGED diffVars
        /\ UNCHANGED scrollVars

BridgeInit ==
    /\ hasUI = TRUE
    /\ enabled = TRUE
    /\ editedCalls = <<>>
    /\ fs = RealFiles
    /\ calls = <<>>
    /\ pc = "idle"
    /\ staged = <<>>
    /\ status = StatusOf(TRUE)
    /\ shutdown = "no"
    /\ NoDiff
    /\ NoSession
    /\ onPath \in SUBSET Programs
    /\ deltaAvailable = Missing
    /\ spawned = <<>>
    /\ bridgeOut = [op |-> "none", tool |-> "none", raised |-> FALSE, value |-> Missing]
    /\ tmpPatch = {}

BridgeNext ==
    \/ \E tools \in SUBSET Programs : SetPath(tools)
    \/ \E diffExit \in DiffExits, feedOk \in BOOLEAN, lastOk \in BOOLEAN :
            OpenExternalDiff(diffExit, feedOk, lastOk)
    \/ \E diff \in Patches, mkOk \in BOOLEAN, writeOk \in BOOLEAN, exit \in DeltaExits :
            RenderWithDelta(diff, mkOk, writeOk, exit)

SpecBridge == BridgeInit /\ [][BridgeNext]_vars

-----------------------------------------------------------------------------
(* Properties of the external tool bridge *)

\* C33: when delta is the discovered tool and feeding it a diff through
\* standard input fails, openExternalDiff then runs delta on the two staged
\* paths, also when the staged files differ and diff exited non-zero.
C33_FailedFeedFallsBackToPaths ==
    \A i \in 1..Len(spawned) :
        (/\ bridgeOut.op = "openExternalDiff"
         /\ bridgeOut.tool = "delta"
         /\ spawned[i].cmd = "delta"
         /\ spawned[i].given \in {"stdin-diff", "stdin-relabelled"}
         /\ ~spawned[i].ok)
        => \E j \in (i + 1)..Len(spawned) :
                spawned[j].cmd = "delta" /\ spawned[j].given = "paths"

\* C34: findDiffTool returns the first of delta, nvim, vim, diff that is on the
\* path and null only when none is; with null, openExternalDiff runs the
\* editor on the new-content path and nothing else.
C34_FirstAvailableInOrder ==
    [][
        (\E diffExit \in DiffExits, feedOk \in BOOLEAN, lastOk \in BOOLEAN :
            OpenExternalDiff(diffExit, feedOk, lastOk))
        => LET tool == bridgeOut'.tool
           IN  /\ \A i \in 1..Len(Candidates) :
                    tool = Candidates[i]
                        <=> /\ Candidates[i] \in onPath
                            /\ \A k \in 1..(i - 1) : Candidates[k] \notin onPath
               /\ tool = NoTool <=> onPath \cap {"delta", "nvim", "vim", "diff"} = {}
               /\ tool = NoTool => /\ Len(spawned') = 1
                                   /\ spawned'[1].cmd = "editor"
                                   /\ spawned'[1].given = "new"
               /\ tool # NoTool => \A i \in 1..Len(spawned') : spawned'[i].cmd # "editor"
    ]_vars

\* A later candidate taken because the earlier ones are not on the path
C34_Witness ==
    /\ bridgeOut.op = "openExternalDiff"
    /\ bridgeOut.tool = "vim"
    /\ spawned = <<Run("vim", "paths", TRUE)>>
    /\ onPath = {"vim", "diff"}

\* No candidate on the path: the editor is run on the new-content path
C34_WitnessNone ==
    /\ bridgeOut.op = "openExternalDiff"
    /\ bridgeOut.tool = NoTool
    /\ spawned = <<EditorRun(TRUE)>>

\* The colorizer did not colour the diff: it is missing (hasDelta is false, or
\* delta disappeared after hasDelta cached true), it timed out, or it exited
\* non-zero
ColorizerFailed ==
    /\ bridgeOut.op = "renderWithDelta"
    /\ \/ deltaAvailable = Some(FALSE)
       \/ /\ spawned # <<>>
          /\ spawned[Len(spawned)].given = "stdin-patch"
          /\ ~spawned[Len(spawned)].ok

C35_WitnessMissing ==
    /\ ColorizerFailed
    /\ deltaAvailable = Some(FALSE)
    /\ bridgeOut.value # Missing
    /\ bridgeOut.value[1] \in Patches

-----------------------------------------------------------------------------
(* Properties of a review in flight *)

\* C36: a write review in Viewing has one staged artifact and an edit review
\* in Viewing (also after each round of editing) has two, at distinct paths;
\* they exist when the review is first shown, and while the review goes on the
\* gate removes none of them: a staged file changes or goes only by what the
\* external viewer or editor did to it.
C36_ArtifactsHeldWhileInReview ==
    [][
        (pc' = "viewing" /\ shutdown' = "no") =>
            /\ Len(staged') = (IF calls'[Len(calls')].tool = "write" THEN 1 ELSE 2)
            /\ \A i, j \in DOMAIN staged' : i # j => staged'[i] # staged'[j]
            /\ staged' = calls'[Len(calls')].artifacts
            /\ pc = "idle" => \A i \in DOMAIN staged' : staged'[i] \in DOMAIN fs'
            /\ pc = "viewing" =>
                    /\ staged' = staged
                    /\ \E effect \in Effects(staged) : fs' = ApplyEffect(fs, effect)
    ]_vars

\* An edit review back in Viewing after a round of editing, both artifacts held
C36_Witness ==
    /\ EditReview
    /\ Latest.decision = "edit"
    /\ Len(staged) = 2
    /\ staged[1] # staged[2]
    /\ \A i \in DOMAIN staged : staged[i] \in DOMAIN fs

\* A write review in Viewing with its one artifact
C36_WitnessWrite ==
    /\ WriteReview
    /\ Len(staged) = 1
    /\ staged[1] \in DOMAIN fs

\* C37: when a review is rejected the call's input is as it was proposed and
\* no substitution record is made for the call, also when the staged artifact
\* was edited externally before the rejection.
C37_RejectLeavesInputAndNoRecord ==
    (HasCall /\ Latest.decision = "reject") =>
        /\ Latest.input = Latest.proposal
        /\ Len(calls) \notin DOMAIN editedCalls
        /\ Latest.readBack = Missing

\* A rejection after the staged artifact was edited externally
C37_Witness ==
    /\ HasCall
    /\ Latest.decision = "reject"
    /\ Latest.ret = "block"
    /\ Latest.editedOutside
    /\ Latest.input = Latest.proposal
    /\ editedCalls = <<>>

\* The handler of the latest call has finished: it returned or it threw
HandlerFinished == HasCall /\ Latest.ret # "pending"

\* C38: every "slow-mode:waiting" event is followed by exactly one
\* "slow-mode:resolved" event before the handler finishes, on every path;
\* until then the one waiting event stands alone.
C38_WaitingThenResolvedOnce ==
    HasCall =>
        /\ ~HandlerFinished =>
                Latest.events = <<"slow-mode:waiting">>
        /\ HandlerFinished =>
                Latest.events \in {<<>>, <<"slow-mode:waiting", "slow-mode:resolved">>}

\* The review in flight was started with slow mode on and slow mode is now off
ToggledOffInReview == pc = "viewing" /\ ~enabled

\* C39: toggling slow mode off while a review is in flight leaves the review
\* as it is; with slow mode off Esc still blocks the call with its input as
\* proposed, and Enter still lets it proceed with the staged content read back,
\* recorded as a substitution when it differs from the proposal.
C39_ToggleOffKeepsReview ==
    [][
        /\ (pc = "viewing" /\ enabled /\ ~enabled') =>
                /\ pc' = "viewing"
                /\ UNCHANGED <<calls, staged, fs, editedCalls>>
        /\ (ToggledOffInReview /\ calls'[Len(calls')].decision = "reject") =>
                /\ calls'[Len(calls')].ret = "block"
                /\ calls'[Len(calls')].input = Latest.proposal
                /\ editedCalls' = editedCalls
        /\ (ToggledOffInReview /\ calls'[Len(calls')].decision = "approve") =>
                LET original == Proposed(Latest.tool, Latest.proposal)
                    onDisk == IF staged[Len(staged)] \in DOMAIN fs
                              THEN fs[staged[Len(staged)]] ELSE original
                IN  /\ calls'[Len(calls')].ret = "undefined"
                    /\ Proposed(Latest.tool, calls'[Len(calls')].input) = onDisk
                    /\ (onDisk # original) =>
                            /\ Len(calls) \in DOMAIN editedCalls'
                            /\ editedCalls'[Len(calls)] =
                                    [original |-> original, edited |-> onDisk]
                    /\ (onDisk = original) => editedCalls' = editedCalls
        /\ (ToggledOffInReview /\ ~enabled') =>
                (pc' = "viewing" \/ calls'[Len(calls')].decision \in {"approve", "reject", "edit"})
    ]_vars

\* Slow mode was switched off during the review and the approval applied the
\* edited content
C39_Witness ==
    /\ HasCall
    /\ Latest.wasEnabled
    /\ ~enabled
    /\ Latest.decision = "approve"
    /\ Len(calls) \in DOMAIN editedCalls
    /\ Proposed(Latest.tool, Latest.input) # Proposed(Latest.tool, Latest.proposal)

\* Slow mode was switched off during the review and the rejection blocked
C39_WitnessReject ==
    /\ HasCall
    /\ Latest.wasEnabled
    /\ ~enabled
    /\ Latest.decision = "reject"
    /\ Latest.ret = "block"

\* C40: when the staged artifact cannot be read back at approval (it was
\* deleted during external viewing or editing), the call proceeds with the
\* content as proposed, no substitution record is made and nothing is raised.
C40_UnreadableArtifactKeepsProposal ==
    [][
        (KeyEnter /\ staged[Len(staged)] \notin DOMAIN fs) =>
            /\ calls'[Len(calls')].decision = "approve"
            /\ calls'[Len(calls')].ret = "undefined"
            /\ calls'[Len(calls')].abort = "none"
            /\ calls'[Len(calls')].input = Latest.proposal
            /\ editedCalls' = editedCalls
            /\ pc' = "idle"
    ]_vars

\* An approval whose read-back failed
C40_Witness ==
    /\ HasCall
    /\ Latest.decision = "approve"
    /\ Latest.readBack = Missing
    /\ Latest.ret = "undefined"
    /\ Latest.input = Latest.proposal

====
